---- MODULE Spec2Model ----
(***************************************************************************)
(* kform-providers/kubernetes: the status classifier (package status,      *)
(* Compute and the per-kind condition functions) and the convergence       *)
(* poller of the manifest resource (getStatusWithRetries / getStatus).     *)
(*                                                                         *)
(* Units: durations are in milliseconds, clock values in seconds.          *)
(***************************************************************************)
EXTENDS Integers, Sequences, FiniteSets, TLC

VARIABLES
    \* ---- convergence poller (one session of getStatusWithRetries) ----
    pc,         \* "start" | "loop" | "backoff" | "done"
    u,          \* the object handed to the poller (identity of the resource)
    delete,     \* the delete argument: the poll validates a deletion
    attempt,    \* the loop counter of getStatusWithRetries
    err,        \* the err variable declared before the loop (line 192)
    retObj,     \* returned object: <<>> is nil, <<s>> a snapshot
    retErr,     \* returned error
    cancelled,  \* ctx has been cancelled / its deadline has passed
    sleeps,     \* history: the durations slept (time.Sleep calls), in order
    verdicts,   \* history: per getStatus call, its outcome, the object fetched
                \* and the error it returned, in order
    \* ---- classifier (one call of Compute) ----
    cu,         \* the snapshot handed to Compute
    now,        \* the wall clock read by podConditions
    cres,       \* the value Compute returned
    cpc,        \* "input" | "computed" | "recomputed"
    cfirst,     \* the time and the value of the first of two calls of Compute
    \* ---- resource operations and concurrent sessions ----
    op,         \* the create/update/delete operation in progress and its history
    sessions    \* the locals of two concurrent calls of getStatusWithRetries

pollVars == <<pc, u, delete, attempt, err, retObj, retErr, cancelled,
              sleeps, verdicts>>
computeVars == <<cu, now, cres, cpc, cfirst>>
vars == <<pc, u, delete, attempt, err, retObj, retErr, cancelled,
          sleeps, verdicts, cu, now, cres, cpc, cfirst, op, sessions>>

-----------------------------------------------------------------------------
(* Loosely typed field values of an unstructured object.  A field that is  *)
(* absent is a path outside the DOMAIN of the field map.                   *)

IntV(n) == [t |-> "int", n |-> n, s |-> ""]
StrV(s) == [t |-> "str", n |-> 0, s |-> s]
\* a value of any other type (a float64, a bool, a map)
OtherV == [t |-> "other", n |-> 0, s |-> ""]

\* an empty field map
NoFields == [p \in {} |-> OtherV]

\* GetStringField: the default unless the path holds a string
GetStringField(obj, fieldPath, defaultValue) ==
    IF fieldPath \in DOMAIN obj /\ obj[fieldPath].t = "str"
    THEN obj[fieldPath].s
    ELSE defaultValue

\* GetIntField: the default unless the path holds an int, int32 or int64
GetIntField(obj, fieldPath, defaultValue) ==
    IF fieldPath \in DOMAIN obj /\ obj[fieldPath].t = "int"
    THEN obj[fieldPath].n
    ELSE defaultValue

\* unstructured.NestedInt64: (value, found, err); a value of another type is an error
NestedInt64(obj, fieldPath) ==
    IF fieldPath \notin DOMAIN obj THEN [v |-> 0, found |-> FALSE, err |-> FALSE]
    ELSE IF obj[fieldPath].t = "int" THEN [v |-> obj[fieldPath].n, found |-> TRUE, err |-> FALSE]
    ELSE [v |-> 0, found |-> FALSE, err |-> TRUE]

\* unstructured.NestedString: (value, found, err)
NestedString(obj, fieldPath) ==
    IF fieldPath \notin DOMAIN obj THEN [v |-> "", found |-> FALSE, err |-> FALSE]
    ELSE IF obj[fieldPath].t = "str" THEN [v |-> obj[fieldPath].s, found |-> TRUE, err |-> FALSE]
    ELSE [v |-> "", found |-> FALSE, err |-> TRUE]

-----------------------------------------------------------------------------
(* Results and errors.  A message is the format string with its integer    *)
(* and string arguments; an error is its format string with one argument.  *)

ConditionTrue == "True"
ConditionFalse == "False"
ConditionUnknown == "Unknown"

ReasonReady == "Ready"
ReasonTerminating == "Terminating"
ReasonInProgress == "InProgress"
ReasonNoStatusInfo == "NoStatusInfo"
ReasonUserManaged == "UserManaged"
ReasonFailed == "Failed"

Msg(fmt, args) == [fmt |-> fmt, args |-> args, names |-> <<>>]
MsgNames(fmt, names) == [fmt |-> fmt, args |-> <<>>, names |-> names]
NoMsg == Msg("", <<>>)

\* an error: the format string and its arguments; cause is the error wrapped by %w
NoCause == [fmt |-> "", arg |-> "", msg |-> NoMsg]
NoErr == [fmt |-> "", arg |-> "", msg |-> NoMsg, gvk |-> <<>>, nsn |-> <<>>,
          retries |-> 0, cause |-> NoCause]
Errorf(fmt, arg) == [NoErr EXCEPT !.fmt = fmt, !.arg = arg]

\* a *Result; NoResult is the nil pointer
NoResult == [Status |-> "", Reason |-> "", Message |-> NoMsg]

ready(msg) == [Status |-> ConditionTrue, Reason |-> ReasonReady, Message |-> msg]

noStatusInfo == [Status |-> ConditionTrue, Reason |-> ReasonNoStatusInfo, Message |-> NoMsg]

userManaged == [Status |-> ConditionTrue, Reason |-> ReasonUserManaged, Message |-> NoMsg]

\* faulty variant of inProgress: the status of a Ready result
inProgress_statusTrue(msg) == [Status |-> ConditionTrue, Reason |-> ReasonInProgress, Message |-> msg]

inProgress(msg) == [Status |-> ConditionFalse, Reason |-> ReasonInProgress, Message |-> msg]

terminating == [Status |-> ConditionFalse, Reason |-> ReasonTerminating, Message |-> NoMsg]

failed(msg) == [Status |-> ConditionFalse, Reason |-> ReasonFailed, Message |-> msg]

\* the (result, error) pair a classifier returns
Ret(res, e) == [res |-> res, err |-> e]
Ok(res) == Ret(res, NoErr)
Fail(e) == Ret(NoResult, e)
\* (nil, nil): no verdict and no error
Nothing == Ret(NoResult, NoErr)

-----------------------------------------------------------------------------
(* Conditions                                                              *)

Cond(type, status, reason, message) ==
    [Type |-> type, Status |-> status, Reason |-> reason, Message |-> message]

\* GetObjectWithConditions: the decoded status.conditions, or an error when
\* the conversion fails (u.conditions.ok = FALSE: an undecodable structure)
GetObjectWithConditions(obj) ==
    IF obj.conditions.ok
    THEN [Conditions |-> obj.conditions.list, err |-> NoErr]
    ELSE [Conditions |-> <<>>, err |-> Errorf("FromUnstructured: %s", "status.conditions")]

\* index of the first condition with the type and status, 0 when there is none
firstConditionWithStatus(conditions, conditionType, status) ==
    LET hits == {i \in 1..Len(conditions) :
                    conditions[i].Type = conditionType /\ conditions[i].Status = status}
    IN IF hits = {} THEN 0 ELSE CHOOSE i \in hits : \A j \in hits : i <= j

getConditionWithStatus(conditions, conditionType, status) ==
    LET i == firstConditionWithStatus(conditions, conditionType, status)
    IN IF i = 0 THEN [c |-> Cond("", "", "", ""), found |-> FALSE]
       ELSE [c |-> conditions[i], found |-> TRUE]

hasConditionWithStatus(conditions, conditionType, status) ==
    getConditionWithStatus(conditions, conditionType, status).found

-----------------------------------------------------------------------------
(* Generic rules                                                           *)

\* faulty variant of checkGeneration: only an older observed generation counts
checkGeneration_observedLower(obj) ==
    LET g == NestedInt64(obj.f, "metadata.generation")
        o == NestedInt64(obj.f, "status.observedGeneration")
    IN IF g.err THEN Fail(Errorf("cannot lookup metadata.generation from resource: %w", "type"))
       ELSE IF ~g.found THEN Nothing
       ELSE IF o.err THEN Fail(Errorf("cannot lookup status.observedGeneration from resource: %w", "type"))
       ELSE IF o.found /\ o.v < g.v
            THEN Ok(inProgress([fmt |-> "%s generation is %d, but latest observed generation is %d",
                                args |-> <<g.v, o.v>>, names |-> <<obj.kind>>]))
       ELSE Nothing

checkGeneration(obj) ==
    LET g == NestedInt64(obj.f, "metadata.generation")
        o == NestedInt64(obj.f, "status.observedGeneration")
    IN IF g.err THEN Fail(Errorf("cannot lookup metadata.generation from resource: %w", "type"))
       ELSE IF ~g.found THEN Nothing
       ELSE IF o.err THEN Fail(Errorf("cannot lookup status.observedGeneration from resource: %w", "type"))
       ELSE IF o.found /\ o.v # g.v
            THEN Ok(inProgress([fmt |-> "%s generation is %d, but latest observed generation is %d",
                                args |-> <<g.v, o.v>>, names |-> <<obj.kind>>]))
       ELSE Nothing

\* faulty variant of firstReady: the last condition of type Ready
firstReady_last(conditions) ==
    LET hits == {i \in 1..Len(conditions) : conditions[i].Type = "Ready"}
    IN IF hits = {} THEN 0 ELSE CHOOSE i \in hits : \A j \in hits : i >= j

\* the first condition of type Ready, 0 when there is none
firstReady(conditions) ==
    LET hits == {i \in 1..Len(conditions) : conditions[i].Type = "Ready"}
    IN IF hits = {} THEN 0 ELSE CHOOSE i \in hits : \A j \in hits : i <= j

\* faulty variant of checkGenericProperties: the generation is checked before
\* the deletion timestamp
checkGenericProperties_generationFirst(obj) ==
    LET d == NestedString(obj.f, "metadata.deletionTimestamp")
        gen == checkGeneration(obj)
        objc == GetObjectWithConditions(obj)
        r == firstReady(objc.Conditions)
    IN IF gen.res # NoResult \/ gen.err # NoErr THEN gen
       ELSE IF d.err THEN Fail(Errorf("cannot lookup metadata.deletionTimestamp from resource: %w", "type"))
       ELSE IF d.found /\ d.v # "" THEN Ok(terminating)
       ELSE IF objc.err # NoErr THEN Fail(objc.err)
       ELSE IF r # 0
            THEN IF objc.Conditions[r].Status = ConditionTrue
                 THEN Ok(ready(Msg(objc.Conditions[r].Message, <<>>)))
                 ELSE Ok(inProgress(Msg(objc.Conditions[r].Message, <<>>)))
       ELSE Nothing

checkGenericProperties(obj) ==
    LET d == NestedString(obj.f, "metadata.deletionTimestamp")
        gen == checkGeneration(obj)
        objc == GetObjectWithConditions(obj)
        r == firstReady(objc.Conditions)
    IN IF d.err THEN Fail(Errorf("cannot lookup metadata.deletionTimestamp from resource: %w", "type"))
       ELSE IF d.found /\ d.v # "" THEN Ok(terminating)
       ELSE IF gen.res # NoResult \/ gen.err # NoErr THEN gen
       ELSE IF objc.err # NoErr THEN Fail(objc.err)
       ELSE IF r # 0
            THEN IF objc.Conditions[r].Status = ConditionTrue
                 THEN Ok(ready(Msg(objc.Conditions[r].Message, <<>>)))
                 ELSE Ok(inProgress(Msg(objc.Conditions[r].Message, <<>>)))
       ELSE Nothing

-----------------------------------------------------------------------------
(* Kind-specific classifiers                                               *)

onDeleteUpdateStrategy == "OnDelete"

\* ScheduleWindow = 15 * time.Second, in seconds
ScheduleWindow == 15

\* math.MaxInt32
MaxInt32 == 2147483647

\* faulty variant of alwaysReady: Ready only without a status section
alwaysReady_withoutStatus(obj) ==
    IF \E p \in DOMAIN obj.f : p = ".status.lastScheduleTime"
    THEN Ok(inProgress(Msg("", <<>>)))
    ELSE Ok(ready(Msg("ready", <<>>)))

alwaysReady(obj) == Ok(ready(Msg("ready", <<>>)))

\* faulty variant of partitionSet: partition 0 is taken as no partition
partitionSet_positive(partition) == partition > 0

\* stsConditions: a partition other than the default of the lookup is set
partitionSet(partition) == partition # -1

stsConditions(obj) ==
    LET updateStrategy == GetStringField(obj.f, ".spec.updateStrategy.type", "")
        specReplicas == GetIntField(obj.f, ".spec.replicas", 1)
        readyReplicas == GetIntField(obj.f, ".status.readyReplicas", 0)
        currentReplicas == GetIntField(obj.f, ".status.currentReplicas", 0)
        updatedReplicas == GetIntField(obj.f, ".status.updatedReplicas", 0)
        statusReplicas == GetIntField(obj.f, ".status.replicas", 0)
        partition == GetIntField(obj.f, ".spec.updateStrategy.rollingUpdate.partition", -1)
        currentRevision == GetStringField(obj.f, ".status.currentRevision", "")
        updatedRevision == GetStringField(obj.f, ".status.updateRevision", "")
    IN IF updateStrategy = onDeleteUpdateStrategy THEN Ok(userManaged)
       ELSE IF specReplicas > statusReplicas
            THEN Ok(inProgress(Msg("Replicas: %d/%d", <<statusReplicas, specReplicas>>)))
       ELSE IF specReplicas > readyReplicas
            THEN Ok(inProgress(Msg("Ready: %d/%d", <<readyReplicas, specReplicas>>)))
       ELSE IF statusReplicas > specReplicas
            THEN Ok(inProgress(Msg("Pending termination: %d", <<statusReplicas - specReplicas>>)))
       ELSE IF partitionSet(partition)
            THEN IF updatedReplicas < (specReplicas - partition)
                 THEN Ok(inProgress(Msg("updated: %d/%d", <<updatedReplicas, specReplicas - partition>>)))
                 ELSE Ok(ready(Msg("Partition rollout complete. updated: %d", <<updatedReplicas>>)))
       ELSE IF specReplicas > currentReplicas
            THEN Ok(inProgress(Msg("current: %d/%d", <<currentReplicas, specReplicas>>)))
       ELSE IF currentRevision # updatedRevision
            THEN Ok(inProgress(Msg("Waiting for updated revision to match current", <<>>)))
       ELSE Ok(ready(Msg("All replicas scheduled as expected. Replicas: %d", <<statusReplicas>>)))

\* index of the first element of 1..Len(s) satisfying the set of hits, 0 when none
firstOf(hits) == IF hits = {} THEN 0 ELSE CHOOSE i \in hits : \A j \in hits : i <= j

\* faulty variant of deadlineExceeded: only a Progressing condition of status False counts
deadlineExceeded_statusFalse(cs) ==
    firstOf({i \in 1..Len(cs) : /\ cs[i].Type = "Progressing"
                                /\ cs[i].Status = ConditionFalse
                                /\ cs[i].Reason = "ProgressDeadlineExceeded"})

\* deploymentConditions, the scan of the conditions: the index of the first
\* Progressing condition with reason ProgressDeadlineExceeded, 0 when there is none
deadlineExceeded(cs) ==
    firstOf({i \in 1..Len(cs) :
                cs[i].Type = "Progressing" /\ cs[i].Reason = "ProgressDeadlineExceeded"})

\* faulty variant of isProgressing: any Progressing condition of status True counts
isProgressing_anyReason(progressDeadline, cs) ==
    \/ progressDeadline = MaxInt32
    \/ \E i \in 1..Len(cs) : cs[i].Type = "Progressing" /\ cs[i].Status = ConditionTrue

\* deploymentConditions, the progressing flag after the scan
isProgressing(progressDeadline, cs) ==
    \/ progressDeadline = MaxInt32
    \/ \E i \in 1..Len(cs) : /\ cs[i].Type = "Progressing"
                             /\ cs[i].Status = ConditionTrue
                             /\ cs[i].Reason = "NewReplicaSetAvailable"

\* deploymentConditions, the available flag after the scan
isAvailable(cs) ==
    \E i \in 1..Len(cs) : cs[i].Type = "Available" /\ cs[i].Status = ConditionTrue

deploymentConditions(obj) ==
    LET progressDeadline == GetIntField(obj.f, ".spec.progressDeadlineSeconds", MaxInt32)
        objc == GetObjectWithConditions(obj)
        cs == objc.Conditions
        exceeded == deadlineExceeded(cs)
        progressing == isProgressing(progressDeadline, cs)
        available == isAvailable(cs)
        specReplicas == GetIntField(obj.f, ".spec.replicas", 1)
        statusReplicas == GetIntField(obj.f, ".status.replicas", 0)
        updatedReplicas == GetIntField(obj.f, ".status.updatedReplicas", 0)
        readyReplicas == GetIntField(obj.f, ".status.readyReplicas", 0)
        availableReplicas == GetIntField(obj.f, ".status.availableReplicas", 0)
    IN IF objc.err # NoErr THEN Fail(objc.err)
       ELSE IF exceeded # 0 THEN Ok(failed(Msg(cs[exceeded].Message, <<>>)))
       ELSE IF specReplicas > statusReplicas
            THEN Ok(inProgress(Msg("Replicas: %d/%d", <<statusReplicas, specReplicas>>)))
       ELSE IF specReplicas > updatedReplicas
            THEN Ok(inProgress(Msg("Updated: %d/%d", <<updatedReplicas, specReplicas>>)))
       ELSE IF statusReplicas > specReplicas
            THEN Ok(inProgress(Msg("Pending termination: %d", <<statusReplicas - specReplicas>>)))
       ELSE IF updatedReplicas > availableReplicas
            THEN Ok(inProgress(Msg("Available: %d/%d", <<availableReplicas, updatedReplicas>>)))
       ELSE IF specReplicas > readyReplicas
            THEN Ok(inProgress(Msg("Ready: %d/%d", <<readyReplicas, specReplicas>>)))
       ELSE IF ~progressing THEN Ok(inProgress(Msg("ReplicaSet not Available", <<>>)))
       ELSE IF ~available THEN Ok(inProgress(Msg("Deployment not Available", <<>>)))
       ELSE Ok(ready(Msg("Deployment is available. Replicas: %d", <<statusReplicas>>)))

replicasetConditions(obj) ==
    LET objc == GetObjectWithConditions(obj)
        cs == objc.Conditions
        specReplicas == GetIntField(obj.f, ".spec.replicas", 1)
        statusReplicas == GetIntField(obj.f, ".status.replicas", 0)
        readyReplicas == GetIntField(obj.f, ".status.readyReplicas", 0)
        availableReplicas == GetIntField(obj.f, ".status.availableReplicas", 0)
        fullyLabelledReplicas == GetIntField(obj.f, ".status.fullyLabeledReplicas", 0)
    IN IF objc.err # NoErr THEN Fail(objc.err)
       ELSE IF \E i \in 1..Len(cs) : cs[i].Type = "ReplicaFailure" /\ cs[i].Status = ConditionTrue
            THEN Ok(inProgress(Msg("Replica Failure condition. Check Pods", <<>>)))
       ELSE IF specReplicas > fullyLabelledReplicas
            THEN Ok(inProgress(Msg("Labelled: %d/%d", <<fullyLabelledReplicas, specReplicas>>)))
       ELSE IF specReplicas > availableReplicas
            THEN Ok(inProgress(Msg("Available: %d/%d", <<availableReplicas, specReplicas>>)))
       ELSE IF specReplicas > readyReplicas
            THEN Ok(inProgress(Msg("Ready: %d/%d", <<readyReplicas, specReplicas>>)))
       ELSE IF statusReplicas > specReplicas
            THEN Ok(inProgress(Msg("Pending termination: %d", <<statusReplicas - specReplicas>>)))
       ELSE Ok(ready(Msg("ReplicaSet is available. Replicas: %d", <<statusReplicas>>)))

\* faulty variant of checkGenerationSet: an absent field is skipped, as in checkGeneration
checkGenerationSet_skipsAbsent(obj) ==
    LET g == NestedInt64(obj.f, "metadata.generation")
        o == NestedInt64(obj.f, "status.observedGeneration")
    IN IF g.err THEN Fail(Errorf("looking up metadata.generation from resource: %w", "type"))
       ELSE IF ~g.found THEN Nothing
       ELSE IF o.err THEN Fail(Errorf("looking up status.observedGeneration from resource: %w", "type"))
       ELSE Nothing

checkGenerationSet(obj) ==
    LET g == NestedInt64(obj.f, "metadata.generation")
        o == NestedInt64(obj.f, "status.observedGeneration")
    IN IF g.err THEN Fail(Errorf("looking up metadata.generation from resource: %w", "type"))
       ELSE IF ~g.found
            THEN Ok(inProgress(MsgNames("%s metadata.generation not found", <<obj.kind>>)))
       ELSE IF o.err THEN Fail(Errorf("looking up status.observedGeneration from resource: %w", "type"))
       ELSE IF ~o.found
            THEN Ok(inProgress(MsgNames("%s status.observedGeneration not found", <<obj.kind>>)))
       ELSE Nothing

daemonsetConditions(obj) ==
    LET gs == checkGenerationSet(obj)
        desiredNumberScheduled == GetIntField(obj.f, ".status.desiredNumberScheduled", -1)
        currentNumberScheduled == GetIntField(obj.f, ".status.currentNumberScheduled", 0)
        updatedNumberScheduled == GetIntField(obj.f, ".status.updatedNumberScheduled", 0)
        numberAvailable == GetIntField(obj.f, ".status.numberAvailable", 0)
        numberReady == GetIntField(obj.f, ".status.numberReady", 0)
    IN IF gs.err # NoErr \/ gs.res # NoResult THEN gs
       ELSE IF desiredNumberScheduled = -1
            THEN Ok(inProgress(Msg("Missing .status.desiredNumberScheduled", <<>>)))
       ELSE IF desiredNumberScheduled > currentNumberScheduled
            THEN Ok(inProgress(Msg("Current: %d/%d", <<currentNumberScheduled, desiredNumberScheduled>>)))
       ELSE IF desiredNumberScheduled > updatedNumberScheduled
            THEN Ok(inProgress(Msg("Updated: %d/%d", <<updatedNumberScheduled, desiredNumberScheduled>>)))
       ELSE IF desiredNumberScheduled > numberAvailable
            THEN Ok(inProgress(Msg("Available: %d/%d", <<numberAvailable, desiredNumberScheduled>>)))
       ELSE IF desiredNumberScheduled > numberReady
            THEN Ok(inProgress(Msg("Ready: %d/%d", <<numberReady, desiredNumberScheduled>>)))
       ELSE Ok(ready(Msg("All replicas scheduled as expected. Replicas: %d", <<desiredNumberScheduled>>)))

pvcConditions(obj) ==
    LET phase == GetStringField(obj.f, ".status.phase", "unknown")
    IN IF phase # "Bound"
       THEN Ok(inProgress(MsgNames("PVC is not Bound. phase: %s", <<phase>>)))
       ELSE Ok(ready(Msg("PVC is bound", <<>>)))

\* u.GetCreationTimestamp(): the parsed metadata.creationTimestamp in seconds
\* since the zero time.Time; an absent or unparsable field is the zero time
GetCreationTimestamp(obj) == GetIntField(obj.f, "metadata.creationTimestamp", 0)

\* the names, in order, of the containers of css waiting with reason CrashLoopBackOff
RECURSIVE crashLoopingNames(_)
crashLoopingNames(css) ==
    IF css = <<>> THEN <<>>
    ELSE LET cs == Head(css)
             hit == cs.hasName /\ cs.waiting /\ cs.hasReason /\ cs.reason = "CrashLoopBackOff"
         IN (IF hit THEN <<cs.name>> ELSE <<>>) \o crashLoopingNames(Tail(css))

\* (containerNames, isCrashLooping, err).  status.containerStatuses is
\* obj.containers: t = "absent", "list" (a slice) or "other" (not a slice)
getCrashLoopingContainers(obj) ==
    IF obj.containers.t = "absent"
    THEN [names |-> <<>>, isCrashLooping |-> FALSE, err |-> NoErr]
    ELSE IF obj.containers.t # "list"
    THEN [names |-> <<>>, isCrashLooping |-> FALSE,
          err |-> Errorf("accessor error: %s", "status.containerStatuses")]
    ELSE LET containerNames == crashLoopingNames(obj.containers.list)
         IN [names |-> containerNames, isCrashLooping |-> Len(containerNames) > 0, err |-> NoErr]

\* faulty variant of pendingPod: the schedule window applies to every Pending Pod
pendingPod_windowForAll(obj, conditions, clock) ==
    LET sched == getConditionWithStatus(conditions, "PodScheduled", ConditionFalse)
    IN IF clock - ScheduleWindow < GetCreationTimestamp(obj)
       THEN IF sched.found /\ sched.c.Reason = "Unschedulable"
            THEN Ok(inProgress(Msg("Pod has not been scheduled", <<>>)))
            ELSE Ok(inProgress(Msg("Pod is in the Pending phase", <<>>)))
       ELSE Ok(failed(Msg("Pod could not be scheduled", <<>>)))

\* faulty variant of pendingPod: the window is measured from the creation time
\* towards the past
pendingPod_windowReversed(obj, conditions, clock) ==
    LET sched == getConditionWithStatus(conditions, "PodScheduled", ConditionFalse)
    IN IF sched.found /\ sched.c.Reason = "Unschedulable"
       THEN IF GetCreationTimestamp(obj) - ScheduleWindow < clock
            THEN Ok(inProgress(Msg("Pod has not been scheduled", <<>>)))
            ELSE Ok(failed(Msg("Pod could not be scheduled", <<>>)))
       ELSE Ok(inProgress(Msg("Pod is in the Pending phase", <<>>)))

\* podConditions, case "Pending"; clock is time.Now(), in seconds since the
\* zero time.Time
pendingPod(obj, conditions, clock) ==
    LET sched == getConditionWithStatus(conditions, "PodScheduled", ConditionFalse)
    IN IF sched.found /\ sched.c.Reason = "Unschedulable"
       THEN IF clock - ScheduleWindow < GetCreationTimestamp(obj)
            THEN Ok(inProgress(Msg("Pod has not been scheduled", <<>>)))
            ELSE Ok(failed(Msg("Pod could not be scheduled", <<>>)))
       ELSE Ok(inProgress(Msg("Pod is in the Pending phase", <<>>)))

\* faulty variant of otherPhase: an unknown phase is taken as still converging
otherPhase_inProgress(phase) == Ok(inProgress(Msg("Pod phase not available", <<>>)))

\* podConditions, the default case: no phase yet, or an unknown one
otherPhase(phase) ==
    IF phase = "" THEN Ok(inProgress(Msg("Pod phase not available", <<>>)))
    ELSE Fail(Errorf("unknown phase %s", phase))

\* clock is time.Now(), in seconds since the zero time.Time
podConditions(obj, clock) ==
    LET objc == GetObjectWithConditions(obj)
        phase == GetStringField(obj.f, ".status.phase", "")
        crash == getCrashLoopingContainers(obj)
    IN IF objc.err # NoErr THEN Fail(objc.err)
       ELSE IF phase = "Succeeded" THEN Ok(ready(Msg("Pod completed", <<>>)))
       ELSE IF phase = "Failed" THEN Ok(failed(Msg("Pod failed", <<>>)))
       ELSE IF phase = "Running"
            THEN IF hasConditionWithStatus(objc.Conditions, "Ready", ConditionTrue)
                 THEN Ok(ready(Msg("Pod ready", <<>>)))
                 ELSE IF crash.err # NoErr THEN Fail(crash.err)
                 ELSE IF crash.isCrashLooping
                      THEN Ok(failed(MsgNames("Containers in CrashLoop state: %s", crash.names)))
                 ELSE Ok(inProgress(Msg("Pod is running but is not Ready", <<>>)))
       ELSE IF phase = "Pending" THEN pendingPod(obj, objc.Conditions, clock)
       ELSE otherPhase(phase)

pdbConditions(obj) == Ok(ready(Msg("AllowedDisruptions has been computed.", <<>>)))

jobConditions(obj) ==
    LET parallelism == GetIntField(obj.f, ".spec.parallelism", 1)
        completions == GetIntField(obj.f, ".spec.completions", parallelism)
        succeeded == GetIntField(obj.f, ".status.succeeded", 0)
        active == GetIntField(obj.f, ".status.active", 0)
        podFailed == GetIntField(obj.f, ".status.failed", 0)
        starttime == GetStringField(obj.f, ".status.startTime", "")
        objc == GetObjectWithConditions(obj)
        cs == objc.Conditions
        i == firstOf({j \in 1..Len(cs) :
                 cs[j].Type \in {"Complete", "Failed"} /\ cs[j].Status = ConditionTrue})
    IN IF objc.err # NoErr THEN Fail(objc.err)
       ELSE IF i # 0 /\ cs[i].Type = "Complete"
            THEN Ok(ready(Msg("Job Completed. succeeded: %d/%d", <<succeeded, completions>>)))
       ELSE IF i # 0
            THEN Ok(failed(Msg("Job Failed. failed: %d/%d", <<podFailed, completions>>)))
       ELSE IF starttime = "" THEN Ok(inProgress(Msg("Job not started", <<>>)))
       ELSE Ok(inProgress(Msg("Job in progress. success:%d, active: %d, failed: %d",
                              <<succeeded, active, podFailed>>)))

serviceConditions(obj) ==
    LET specType == GetStringField(obj.f, ".spec.type", "ClusterIP")
        specClusterIP == GetStringField(obj.f, ".spec.clusterIP", "")
    IN IF specType = "LoadBalancer" /\ specClusterIP = ""
       THEN Ok(inProgress(Msg("ClusterIP not set. Service type: LoadBalancer", <<>>)))
       ELSE Ok(ready(Msg("service ready", <<>>)))

crdConditions(obj) ==
    LET objc == GetObjectWithConditions(obj)
        cs == objc.Conditions
        namesRejected(c) == c.Type = "NamesAccepted" /\ c.Status = ConditionFalse
        notEstablished(c) == c.Type = "Established" /\ c.Status = ConditionFalse /\ c.Reason # "Installing"
        established(c) == c.Type = "Established" /\ c.Status = ConditionTrue
        i == firstOf({j \in 1..Len(cs) :
                 namesRejected(cs[j]) \/ notEstablished(cs[j]) \/ established(cs[j])})
    IN IF objc.err # NoErr THEN Fail(objc.err)
       ELSE IF i = 0 THEN Ok(inProgress(Msg("installing", <<>>)))
       ELSE IF namesRejected(cs[i]) \/ notEstablished(cs[i])
            THEN Ok(failed(Msg(cs[i].Message, <<>>)))
       ELSE Ok(ready(Msg("CRD established", <<>>)))

-----------------------------------------------------------------------------
(* The registry and the facade                                             *)

\* the registry key: group + "/" + kind, written <<group, kind>>, and the
\* bare kind, written <<kind>>
legacyTypes ==
    (<<"Service">> :> "serviceConditions") @@
    (<<"Pod">> :> "podConditions") @@
    (<<"Secret">> :> "alwaysReady") @@
    (<<"PersistentVolumeClaim">> :> "pvcConditions") @@
    (<<"apps", "StatefulSet">> :> "stsConditions") @@
    (<<"apps", "DaemonSet">> :> "daemonsetConditions") @@
    (<<"extensions", "DaemonSet">> :> "daemonsetConditions") @@
    (<<"apps", "Deployment">> :> "deploymentConditions") @@
    (<<"extensions", "Deployment">> :> "deploymentConditions") @@
    (<<"apps", "ReplicaSet">> :> "replicasetConditions") @@
    (<<"extensions", "ReplicaSet">> :> "replicasetConditions") @@
    (<<"policy", "PodDisruptionBudget">> :> "pdbConditions") @@
    (<<"batch", "CronJob">> :> "alwaysReady") @@
    (<<"ConfigMap">> :> "alwaysReady") @@
    (<<"batch", "Job">> :> "jobConditions") @@
    (<<"apiextensions.k8s.io", "CustomResourceDefinition">> :> "crdConditions")

\* faulty variant of GetLegacyConditionsFn: the group is left out of the key
GetLegacyConditionsFn_kindOnly(obj) ==
    LET keys == {k \in DOMAIN legacyTypes : k[Len(k)] = obj.kind}
    IN IF keys # {} THEN legacyTypes[CHOOSE k \in keys : TRUE] ELSE ""

\* the name of the registered function, "" for nil
GetLegacyConditionsFn(obj) ==
    LET key == IF obj.group = "" THEN <<obj.kind>> ELSE <<obj.group, obj.kind>>
    IN IF key \in DOMAIN legacyTypes THEN legacyTypes[key] ELSE ""

\* fn(u) for the registered function fn
Apply(fn, obj, clock) ==
    CASE fn = "serviceConditions" -> serviceConditions(obj)
      [] fn = "podConditions" -> podConditions(obj, clock)
      [] fn = "alwaysReady" -> alwaysReady(obj)
      [] fn = "pvcConditions" -> pvcConditions(obj)
      [] fn = "stsConditions" -> stsConditions(obj)
      [] fn = "daemonsetConditions" -> daemonsetConditions(obj)
      [] fn = "deploymentConditions" -> deploymentConditions(obj)
      [] fn = "replicasetConditions" -> replicasetConditions(obj)
      [] fn = "pdbConditions" -> pdbConditions(obj)
      [] fn = "jobConditions" -> jobConditions(obj)
      [] fn = "crdConditions" -> crdConditions(obj)

\* faulty variant of Compute: the registered function is asked before the generic rules
Compute_kindFirst(obj, clock) ==
    LET g == checkGenericProperties(obj)
        fn == GetLegacyConditionsFn(obj)
    IN IF fn # "" THEN Apply(fn, obj, clock)
       ELSE IF g.err # NoErr THEN Fail(g.err)
       ELSE IF g.res # NoResult THEN Ok(g.res)
       ELSE Ret(noStatusInfo, g.err)

Compute(obj, clock) ==
    LET g == checkGenericProperties(obj)
        fn == GetLegacyConditionsFn(obj)
    IN IF g.err # NoErr THEN Fail(g.err)
       ELSE IF g.res # NoResult THEN Ok(g.res)
       ELSE IF fn # "" THEN Apply(fn, obj, clock)
       ELSE Ret(noStatusInfo, g.err)

-----------------------------------------------------------------------------
(* Snapshots: the inputs of Compute                                        *)

\* bounds of the enumerated snapshots
MaxReplicas == 1
MaxConds == 2
MaxContainers == 2

Snap(group, kind, f, conditions, containers) ==
    [group |-> group, version |-> "v1", kind |-> kind,
     namespace |-> "default", name |-> "x",
     f |-> f, conditions |-> conditions, containers |-> containers]

Conds(list) == [ok |-> TRUE, list |-> list]
BadConds == [ok |-> FALSE, list |-> <<>>]
NoContainers == [t |-> "absent", list |-> <<>>]

SeqsUpTo(S, n) == UNION {[1..k -> S] : k \in 0..n}

\* the field maps that leave the path out or set it to one of vals
OptField(path, vals) == {NoFields} \cup {path :> v : v \in vals}
IntField(path, S) == {path :> IntV(n) : n \in S}
OptIntField(path, S) == {NoFields} \cup IntField(path, S)

Replicas == 0..MaxReplicas

\* metadata.generation and status.observedGeneration present and equal
Observed == ("metadata.generation" :> IntV(1)) @@ ("status.observedGeneration" :> IntV(1))

GenericMeta ==
    {a @@ b @@ c :
        a \in OptField("metadata.deletionTimestamp",
                       {StrV(""), StrV("2024-04-03T13:14:10Z"), OtherV}),
        b \in OptField("metadata.generation", {IntV(1), IntV(2), OtherV}),
        c \in OptField("status.observedGeneration", {IntV(1), IntV(2), OtherV})}

GenericCondAlphabet ==
    {Cond("Ready", ConditionTrue, "Ready", ""),
     Cond("Ready", ConditionFalse, "Ongoing", "not yet"),
     Cond("Ready", ConditionUnknown, "", "unknown"),
     Cond("ConfigReady", ConditionTrue, "Ready", "")}

\* every registry key, the core-group Deployment (not registered) and a custom resource
GroupKinds ==
    {<<"", "Service">>, <<"", "Pod">>, <<"", "Secret">>, <<"", "PersistentVolumeClaim">>,
     <<"apps", "StatefulSet">>, <<"apps", "DaemonSet">>, <<"extensions", "DaemonSet">>,
     <<"apps", "Deployment">>, <<"extensions", "Deployment">>, <<"apps", "ReplicaSet">>,
     <<"extensions", "ReplicaSet">>, <<"policy", "PodDisruptionBudget">>,
     <<"batch", "CronJob">>, <<"", "ConfigMap">>, <<"batch", "Job">>,
     <<"apiextensions.k8s.io", "CustomResourceDefinition">>,
     <<"", "Deployment">>, <<"inv.sdcio.dev", "Target">>}

\* every kind under every combination of the generic metadata
MetaSnapshots ==
    {Snap(gk[1], gk[2], m, c, NoContainers) :
        gk \in GroupKinds, m \in GenericMeta,
        c \in {Conds(<<>>), BadConds, Conds(<<Cond("Ready", ConditionFalse, "Ongoing", "not yet")>>)}}

\* every kind under every short list of generic conditions
CondSnapshots ==
    {Snap(gk[1], gk[2], m, Conds(l), NoContainers) :
        gk \in GroupKinds, m \in {NoFields, Observed},
        l \in SeqsUpTo(GenericCondAlphabet, MaxConds)}

StsSnapshots ==
    {Snap("apps", "StatefulSet", a @@ b @@ c @@ d @@ e @@ g @@ h @@ r, Conds(<<>>), NoContainers) :
        a \in OptField(".spec.updateStrategy.type", {StrV("OnDelete")}),
        b \in OptIntField(".spec.replicas", Replicas),
        c \in IntField(".status.replicas", Replicas),
        d \in IntField(".status.readyReplicas", Replicas),
        e \in IntField(".status.currentReplicas", Replicas),
        g \in IntField(".status.updatedReplicas", Replicas),
        h \in OptIntField(".spec.updateStrategy.rollingUpdate.partition", {0, 1}),
        r \in {(".status.currentRevision" :> StrV("r1")) @@ (".status.updateRevision" :> StrV("r1")),
               (".status.currentRevision" :> StrV("r1")) @@ (".status.updateRevision" :> StrV("r2"))}}

ProgressingOk == Cond("Progressing", ConditionTrue, "NewReplicaSetAvailable", "")
DeploymentCondAlphabet ==
    {ProgressingOk,
     Cond("Progressing", ConditionTrue, "ReplicaSetUpdated", ""),
     Cond("Progressing", ConditionFalse, "ProgressDeadlineExceeded", "deadline"),
     Cond("Progressing", ConditionTrue, "ProgressDeadlineExceeded", "late"),
     Cond("Available", ConditionTrue, "", ""),
     Cond("Available", ConditionFalse, "", "")}

\* spec.progressDeadlineSeconds: absent, a deadline, the controller's "no
\* deadline" value, or a value that is not an integer
ProgressDeadlines ==
    OptField(".spec.progressDeadlineSeconds", {IntV(600), IntV(MaxInt32), OtherV})

DeploymentSnapshots ==
    {Snap("apps", "Deployment", Observed @@ a @@ b @@ c @@ d @@ e @@ g, Conds(l), NoContainers) :
        a \in ProgressDeadlines,
        b \in OptIntField(".spec.replicas", Replicas),
        c \in IntField(".status.replicas", Replicas),
        d \in IntField(".status.updatedReplicas", Replicas),
        e \in IntField(".status.readyReplicas", Replicas),
        g \in IntField(".status.availableReplicas", Replicas),
        l \in {<<>>, <<ProgressingOk, Cond("Available", ConditionTrue, "", "")>>}}
    \cup
    {Snap("apps", "Deployment", Observed @@ a @@ b @@ c, Conds(l), NoContainers) :
        a \in ProgressDeadlines,
        b \in OptIntField(".status.replicas", {1}),
        c \in {(".status.updatedReplicas" :> IntV(1)) @@ (".status.readyReplicas" :> IntV(1))
               @@ (".status.availableReplicas" :> IntV(1))},
        l \in SeqsUpTo(DeploymentCondAlphabet, MaxConds)}

ReplicaSetSnapshots ==
    {Snap("apps", "ReplicaSet", a @@ b @@ c @@ d @@ e, Conds(l), NoContainers) :
        a \in OptIntField(".spec.replicas", Replicas),
        b \in IntField(".status.replicas", Replicas),
        c \in IntField(".status.readyReplicas", Replicas),
        d \in IntField(".status.availableReplicas", Replicas),
        e \in IntField(".status.fullyLabeledReplicas", Replicas),
        l \in {<<>>, <<Cond("ReplicaFailure", ConditionTrue, "FailedCreate", "quota")>>,
               <<Cond("ReplicaFailure", ConditionFalse, "", "")>>}}

DaemonSetSnapshots ==
    {Snap(gr, "DaemonSet", a @@ b @@ c, Conds(<<>>), NoContainers) :
        gr \in {"apps", "extensions"},
        a \in OptIntField("metadata.generation", {1, 2}),
        b \in OptIntField("status.observedGeneration", {1}),
        c \in {(".status.desiredNumberScheduled" :> IntV(1))
               @@ (".status.currentNumberScheduled" :> IntV(1))
               @@ (".status.updatedNumberScheduled" :> IntV(1))
               @@ (".status.numberAvailable" :> IntV(1))
               @@ (".status.numberReady" :> IntV(1))}}
    \cup
    {Snap("apps", "DaemonSet", a @@ b @@ c @@ d @@ e @@ g @@ h, Conds(<<>>), NoContainers) :
        a \in OptIntField("metadata.generation", {1}),
        b \in OptIntField("status.observedGeneration", {1}),
        c \in OptIntField(".status.desiredNumberScheduled", Replicas),
        d \in IntField(".status.currentNumberScheduled", Replicas),
        e \in IntField(".status.updatedNumberScheduled", Replicas),
        g \in IntField(".status.numberAvailable", Replicas),
        h \in IntField(".status.numberReady", Replicas)}

PvcSnapshots ==
    {Snap("", "PersistentVolumeClaim", a, Conds(<<>>), NoContainers) :
        a \in OptField(".status.phase", {StrV("Pending"), StrV("Bound"), StrV("Lost"), OtherV})}

ServiceSnapshots ==
    {Snap("", "Service", a @@ b, Conds(<<>>), NoContainers) :
        a \in OptField(".spec.type", {StrV("ClusterIP"), StrV("LoadBalancer")}),
        b \in OptField(".spec.clusterIP", {StrV(""), StrV("10.0.0.1")})}

JobCondAlphabet ==
    {Cond("Complete", ConditionTrue, "", ""), Cond("Complete", ConditionFalse, "", ""),
     Cond("Failed", ConditionTrue, "BackoffLimitExceeded", "backoff"),
     Cond("Failed", ConditionFalse, "", "")}

JobSnapshots ==
    {Snap("batch", "Job", a @@ b @@ c @@ d, Conds(l), NoContainers) :
        a \in OptIntField(".spec.parallelism", {2}),
        b \in OptIntField(".spec.completions", {1}),
        c \in OptIntField(".status.succeeded", {1}),
        d \in OptField(".status.startTime", {StrV("2024-03-29T00:58:41Z")}),
        l \in SeqsUpTo(JobCondAlphabet, MaxConds)}

CrdCondAlphabet ==
    {Cond("NamesAccepted", ConditionFalse, "Conflict", "names conflict"),
     Cond("NamesAccepted", ConditionTrue, "NoConflicts", ""),
     Cond("Established", ConditionTrue, "InitialNamesAccepted", ""),
     Cond("Established", ConditionFalse, "Installing", ""),
     Cond("Established", ConditionFalse, "NotAccepted", "not accepted")}

CrdSnapshots ==
    {Snap("apiextensions.k8s.io", "CustomResourceDefinition", NoFields, Conds(l), NoContainers) :
        l \in SeqsUpTo(CrdCondAlphabet, MaxConds)}

PodCondAlphabet ==
    {Cond("Ready", ConditionTrue, "", ""),
     Cond("Ready", ConditionFalse, "ContainersNotReady", "containers not ready"),
     Cond("PodScheduled", ConditionFalse, "Unschedulable", "0/3 nodes available"),
     Cond("PodScheduled", ConditionFalse, "SchedulerError", ""),
     Cond("PodScheduled", ConditionTrue, "", "")}

Container(hasName, name, waiting, hasReason, reason) ==
    [hasName |-> hasName, name |-> name, waiting |-> waiting,
     hasReason |-> hasReason, reason |-> reason]

ContainerAlphabet ==
    {Container(TRUE, "a", TRUE, TRUE, "CrashLoopBackOff"),
     Container(TRUE, "b", TRUE, TRUE, "CrashLoopBackOff"),
     Container(TRUE, "c", TRUE, TRUE, "ContainerCreating"),
     Container(TRUE, "d", FALSE, FALSE, ""),
     Container(FALSE, "", TRUE, TRUE, "CrashLoopBackOff")}

ContainerStatuses ==
    {NoContainers, [t |-> "other", list |-> <<>>]}
    \cup {[t |-> "list", list |-> l] : l \in SeqsUpTo(ContainerAlphabet, MaxContainers)}

\* creation times in seconds; ClockValues are the times at which Compute runs
CreationTimes == {100}
ClockValues == {100, 114, 115, 116}

PodSnapshots ==
    {Snap("", "Pod", (".status.phase" :> StrV("Running")), Conds(l), cs) :
        l \in {<<>>, <<Cond("Ready", ConditionFalse, "ContainersNotReady", "containers not ready")>>},
        cs \in ContainerStatuses}
    \cup
    {Snap("", "Pod", (".status.phase" :> StrV("Running")), Conds(l), cs) :
        l \in SeqsUpTo(PodCondAlphabet, MaxConds),
        cs \in {NoContainers,
                [t |-> "list", list |-> <<Container(TRUE, "a", TRUE, TRUE, "CrashLoopBackOff")>>]}}
    \cup
    {Snap("", "Pod", a @@ b, Conds(l), NoContainers) :
        a \in OptField(".status.phase",
                       {StrV(""), StrV("Succeeded"), StrV("Failed"), StrV("Running"),
                        StrV("Pending"), StrV("Unknown")}),
        b \in OptIntField("metadata.creationTimestamp", CreationTimes),
        l \in SeqsUpTo(PodCondAlphabet, MaxConds)}

\* the kinds that are always ready, with and without data and a status section
AlwaysReadySnapshots ==
    {Snap(gk[1], gk[2], a @@ b, Conds(<<>>), NoContainers) :
        gk \in {<<"", "Secret">>, <<"", "ConfigMap">>, <<"batch", "CronJob">>},
        a \in OptField("data.key", {StrV("value"), OtherV}),
        b \in OptField(".status.lastScheduleTime", {StrV("2024-03-29T00:58:41Z"), OtherV})}

\* metadata.deletionTimestamp set, and a generation not yet observed
Deleting == ("metadata.deletionTimestamp" :> StrV("2024-04-03T13:14:10Z"))
Stale == ("metadata.generation" :> IntV(2)) @@ ("status.observedGeneration" :> IntV(1))

\* snapshots with a kind-specific status that are being deleted, or are stale
DeletedSnapshots ==
    {[s EXCEPT !.f = Deleting @@ @] :
        s \in CondSnapshots \cup PvcSnapshots \cup ServiceSnapshots \cup CrdSnapshots}

StaleSnapshots ==
    {[s EXCEPT !.f = Stale @@ @] :
        s \in PvcSnapshots \cup ServiceSnapshots \cup CrdSnapshots}

Snapshots ==
    MetaSnapshots \cup CondSnapshots \cup StsSnapshots \cup DeploymentSnapshots
    \cup ReplicaSetSnapshots \cup DaemonSetSnapshots \cup PvcSnapshots \cup ServiceSnapshots
    \cup JobSnapshots \cup CrdSnapshots \cup PodSnapshots
    \cup AlwaysReadySnapshots \cup DeletedSnapshots \cup StaleSnapshots

-----------------------------------------------------------------------------
(* The convergence poller                                                  *)

maxRetries == 5
backoffFactor == 2
\* initialDelay = 1 * time.Second and initialGetDelay = 500 * time.Millisecond, in ms
initialDelay == 1000
initialGetDelay == 500

RECURSIVE Pow(_, _)
Pow(b, e) == IF e = 0 THEN 1 ELSE b * Pow(b, e - 1)

RECURSIVE Sum(_)
Sum(s) == IF s = <<>> THEN 0 ELSE Head(s) + Sum(Tail(s))

\* faulty variant of backoffDuration: linear in the attempt
backoffDuration_linear(a) == initialDelay * (a + 1)

\* time.Duration(float64(initialDelay) * math.Pow(backoffFactor, float64(attempt)))
backoffDuration(a) == initialDelay * Pow(backoffFactor, a)

\* u.GetObjectKind().GroupVersionKind().String() and NamespacedName.String(),
\* kept as their components
gvkOf(obj) == <<obj.group, obj.version, obj.kind>>
nsnOf(obj) == <<obj.namespace, obj.name>>

\* the part of an error that %w keeps reachable
Inner(e) == [fmt |-> e.fmt, arg |-> e.arg, msg |-> e.msg]

\* what client.Get returned: t = "ok" (obj = <<snapshot>>), "notfound" or "error"
Fetched(s) == [t |-> "ok", obj |-> <<s>>, err |-> NoErr]
NotFound == [t |-> "notfound", obj |-> <<>>, err |-> Errorf("%s not found", "resource")]
FetchError == [t |-> "error", obj |-> <<>>, err |-> Errorf("Get: %s", "connection refused")]

\* faulty variant of notFoundResult: the delete argument is ignored
notFoundResult_ignoresDelete(del) == [obj |-> <<>>, cont |-> TRUE, err |-> NoErr]

\* getStatus, fetch not found: success for a deletion, else continue
notFoundResult(del) ==
    IF del THEN [obj |-> <<>>, cont |-> FALSE, err |-> NoErr]
           ELSE [obj |-> <<>>, cont |-> TRUE, err |-> NoErr]

\* faulty variant of fetchErrorResult: the error is returned as final
fetchErrorResult_stops(e) == [obj |-> <<>>, cont |-> FALSE, err |-> e]

\* getStatus, any other fetch error: continue with the error
fetchErrorResult(e) == [obj |-> <<>>, cont |-> TRUE, err |-> e]

\* getStatus, status.Compute failed: continue with the error
computeErrorResult(obj, e) == [obj |-> obj, cont |-> TRUE, err |-> e]

\* faulty variant of falseVerdictResult: a Failed verdict is retried like InProgress
falseVerdictResult_retriesFailed(obj, result) == [obj |-> obj, cont |-> TRUE, err |-> NoErr]

\* getStatus, result.Status == metav1.ConditionFalse
falseVerdictResult(obj, result) ==
    IF result.Reason = ReasonFailed
    THEN [obj |-> obj, cont |-> FALSE,
          err |-> [NoErr EXCEPT !.fmt = "failed: %s", !.msg = result.Message]]
    ELSE [obj |-> obj, cont |-> TRUE, err |-> NoErr]

\* faulty variant of otherVerdictResult: the grace window is one attempt longer
otherVerdictResult_longGrace(obj, result, att) ==
    IF result.Reason = ReasonNoStatusInfo /\ att < maxRetries - 1
    THEN [obj |-> obj, cont |-> TRUE, err |-> NoErr]
    ELSE [obj |-> obj, cont |-> FALSE, err |-> NoErr]

\* faulty variant of otherVerdictResult: success returns no object
otherVerdictResult_nilObject(obj, result, att) ==
    IF result.Reason = ReasonNoStatusInfo /\ att < maxRetries - 2
    THEN [obj |-> obj, cont |-> TRUE, err |-> NoErr]
    ELSE [obj |-> <<>>, cont |-> FALSE, err |-> NoErr]

\* getStatus, any other result.Status
otherVerdictResult(obj, result, att) ==
    IF result.Reason = ReasonNoStatusInfo /\ att < maxRetries - 2
    THEN [obj |-> obj, cont |-> TRUE, err |-> NoErr]
    ELSE [obj |-> obj, cont |-> FALSE, err |-> NoErr]

\* getStatus: (newObj, cont, err) for what client.Get returned
getStatus(fetch, del, att, clock) ==
    LET result == Compute(fetch.obj[1], clock)
    IN IF fetch.t = "notfound" THEN notFoundResult(del)
       ELSE IF fetch.t = "error" THEN fetchErrorResult(fetch.err)
       ELSE IF result.err # NoErr THEN computeErrorResult(fetch.obj, result.err)
       ELSE IF result.res.Status = ConditionFalse THEN falseVerdictResult(fetch.obj, result.res)
       ELSE otherVerdictResult(fetch.obj, result.res, att)

\* faulty variant of exhaustedError: the namespace/name is left out
exhaustedError_noName(obj, e) ==
    [NoErr EXCEPT !.fmt = "getStatus gvk %s nsn %s after %d retries: %w",
                  !.gvk = gvkOf(obj), !.retries = maxRetries, !.cause = Inner(e)]

\* the error returned when the loop ends: "getStatus gvk %s nsn %s after %d retries: %w"
exhaustedError(obj, e) ==
    [NoErr EXCEPT !.fmt = "getStatus gvk %s nsn %s after %d retries: %w",
                  !.gvk = gvkOf(obj), !.nsn = nsnOf(obj), !.retries = maxRetries,
                  !.cause = Inner(e)]

\* the tag kept in the history for one getStatus call
Outcome(fetch, clock) ==
    IF fetch.t = "notfound" THEN "NotFound"
    ELSE IF fetch.t = "error" THEN "FetchError"
    ELSE IF Compute(fetch.obj[1], clock).err # NoErr THEN "ComputeError"
    ELSE Compute(fetch.obj[1], clock).res.Reason

\* the wall clock of the session, in seconds: it advances by the time slept
Clock == 1000 + (Sum(sleeps) \div 1000)

\* the objects a session is started for
Named(s, ns, n) == [s EXCEPT !.namespace = ns, !.name = n]
PollObjects ==
    {Named(Snap("", "Pod", NoFields, Conds(<<>>), NoContainers), "default", "p1"),
     Named(Snap("inv.sdcio.dev", "Target", NoFields, Conds(<<>>), NoContainers), "default", "dev1"),
     Named(Snap("apps", "StatefulSet", NoFields, Conds(<<>>), NoContainers), "prod", "db")}

\* the server's states of the object: what a fetch of it can return
ServerStates(obj) ==
    {[obj EXCEPT !.f = Deleting @@ Observed]}
    \cup
    (IF obj.kind = "Pod"
     THEN {[obj EXCEPT !.f = (".status.phase" :> StrV(ph))] :
              ph \in {"Succeeded", "Failed", "Pending", "Unknown"}}
     ELSE IF obj.kind = "Target"
     THEN {[obj EXCEPT !.f = Observed, !.conditions = Conds(l)] :
              l \in {<<>>, <<Cond("Ready", ConditionTrue, "Ready", "")>>,
                     <<Cond("Ready", ConditionFalse, "Ongoing", "not yet")>>}}
     ELSE {[obj EXCEPT !.f = Observed @@ (".spec.updateStrategy.type" :> StrV("OnDelete"))],
           [obj EXCEPT !.f = Observed @@ (".status.replicas" :> IntV(0))]})

FetchResults(obj) == {NotFound, FetchError} \cup {Fetched(s) : s \in ServerStates(obj)}

-----------------------------------------------------------------------------
(* One session of getStatusWithRetries                                     *)

IdleObject == Snap("", "ConfigMap", NoFields, Conds(<<>>), NoContainers)

\* no operation has been requested
NoOp == [kind |-> "none", dryRun |-> FALSE, stage |-> "idle",
         mutation |-> "none", polls |-> 0, ret |-> "none"]

\* no concurrent call has been made
NoSessions == <<>>

PollIdle ==
    /\ pc = "idle" /\ u = IdleObject /\ delete = FALSE /\ attempt = 0
    /\ err = NoErr /\ retObj = <<>> /\ retErr = NoErr /\ cancelled = FALSE
    /\ sleeps = <<>> /\ verdicts = <<>>

\* no call of Compute has been made
NoCall == [now |-> 0, ret |-> Nothing]

ComputeIdle ==
    /\ cu = IdleObject /\ now = 0 /\ cres = Nothing /\ cpc = "idle"
    /\ cfirst = NoCall

\* the call getStatusWithRetries(ctx, client, u, delete)
PollInit ==
    /\ pc = "start"
    /\ u \in PollObjects
    /\ delete \in BOOLEAN
    /\ attempt = 0
    /\ err = NoErr
    /\ retObj = <<>> /\ retErr = NoErr
    /\ cancelled = FALSE
    /\ sleeps = <<>> /\ verdicts = <<>>
    /\ ComputeIdle
    /\ op = NoOp /\ sessions = NoSessions

\* time.Sleep(initialGetDelay), then attempt := 0
InitialSleep ==
    /\ pc = "start"
    /\ sleeps' = Append(sleeps, initialGetDelay)
    /\ pc' = "loop"
    /\ UNCHANGED <<u, delete, attempt, err, retObj, retErr, cancelled,
                   verdicts>>
    /\ UNCHANGED computeVars
    /\ UNCHANGED <<op, sessions>>

\* one getStatus call of the loop body.  Its results are bound by := to
\* variables of the loop body, so the err declared before the loop is not assigned.
\* client.Get is given ctx; what it returns under a cancelled ctx is not
\* restricted here.
GetStatusCall ==
    /\ pc = "loop"
    /\ attempt < maxRetries
    /\ \E fetch \in FetchResults(u) :
         LET r == getStatus(fetch, delete, attempt, Clock)
         IN /\ verdicts' = Append(verdicts, [v |-> Outcome(fetch, Clock),
                                             fetched |-> fetch.obj, err |-> r.err])
            /\ IF r.cont
               THEN /\ pc' = "backoff"
                    /\ UNCHANGED <<retObj, retErr>>
               ELSE /\ pc' = "done"
                    /\ retObj' = r.obj
                    /\ retErr' = r.err
    /\ UNCHANGED <<u, delete, attempt, err, cancelled, sleeps>>
    /\ UNCHANGED computeVars
    /\ UNCHANGED <<op, sessions>>

\* faulty variant of BackoffSleep: the attempt counter is not advanced
BackoffSleep_noIncrement ==
    /\ pc = "backoff"
    /\ Len(sleeps) <= maxRetries + 2
    /\ sleeps' = Append(sleeps, backoffDuration(attempt))
    /\ pc' = "loop"
    /\ UNCHANGED <<u, delete, attempt, err, retObj, retErr, cancelled, verdicts>>
    /\ UNCHANGED computeVars
    /\ UNCHANGED <<op, sessions>>

\* time.Sleep(backoffDuration), then attempt++
BackoffSleep ==
    /\ pc = "backoff"
    /\ sleeps' = Append(sleeps, backoffDuration(attempt))
    /\ attempt' = attempt + 1
    /\ pc' = "loop"
    /\ UNCHANGED <<u, delete, err, retObj, retErr, cancelled, verdicts>>
    /\ UNCHANGED computeVars
    /\ UNCHANGED <<op, sessions>>

\* the loop ended: return nil, fmt.Errorf("... after %d retries: %w", ..., err)
Exhausted ==
    /\ pc = "loop"
    /\ ~(attempt < maxRetries)
    /\ retObj' = <<>>
    /\ retErr' = exhaustedError(u, err)
    /\ pc' = "done"
    /\ UNCHANGED <<u, delete, attempt, err, cancelled, sleeps, verdicts>>
    /\ UNCHANGED computeVars
    /\ UNCHANGED <<op, sessions>>

\* the caller's context is cancelled or its deadline passes
Cancel ==
    /\ pc \in {"start", "loop", "backoff"}
    /\ ~cancelled
    /\ cancelled' = TRUE
    /\ UNCHANGED <<pc, u, delete, attempt, err, retObj, retErr, sleeps, verdicts>>
    /\ UNCHANGED computeVars
    /\ UNCHANGED <<op, sessions>>

PollStep == InitialSleep \/ GetStatusCall \/ BackoffSleep \/ Exhausted

Next == PollStep \/ Cancel

Spec == PollInit /\ [][Next]_vars

\* the goroutine keeps running: every sleep and every fetch returns
FairSpec == Spec /\ WF_vars(PollStep)

-----------------------------------------------------------------------------
(* One call of Compute                                                     *)

ComputeInit ==
    /\ cu \in Snapshots
    /\ now = 0
    /\ cres = Nothing
    /\ cpc = "input"
    /\ cfirst = NoCall
    /\ PollIdle
    /\ op = NoOp /\ sessions = NoSessions

\* res, err := Compute(u), at some time of the wall clock
Classify ==
    /\ cpc = "input"
    /\ \E clock \in ClockValues :
         /\ now' = clock
         /\ cres' = Compute(cu, clock)
    /\ cpc' = "computed"
    /\ UNCHANGED <<cu, cfirst>>
    /\ UNCHANGED pollVars
    /\ UNCHANGED <<op, sessions>>

ComputeNext == Classify

ComputeSpec == ComputeInit /\ [][ComputeNext]_vars

\* a second call res, err := Compute(u) on the same snapshot, not earlier than
\* the first
ClassifyAgain ==
    /\ cpc = "computed"
    /\ \E clock \in ClockValues :
         /\ clock >= now
         /\ now' = clock
         /\ cres' = Compute(cu, clock)
    /\ cfirst' = [now |-> now, ret |-> cres]
    /\ cpc' = "recomputed"
    /\ UNCHANGED cu
    /\ UNCHANGED pollVars
    /\ UNCHANGED <<op, sessions>>

RepeatNext == Classify \/ ClassifyAgain

\* two calls of Compute on one snapshot
RepeatSpec == ComputeInit /\ [][RepeatNext]_vars

-----------------------------------------------------------------------------
(* The create, update and delete operations of the manifest resource       *)

Operations == {"create", "update", "delete"}

\* the request: obj.GetObject() and obj.IsDryRun()
OpInit ==
    /\ op \in {[NoOp EXCEPT !.kind = k, !.dryRun = d, !.stage = "request"] :
                 k \in Operations, d \in BOOLEAN}
    /\ pc = "idle"
    /\ u \in PollObjects
    /\ delete = FALSE
    /\ attempt = 0
    /\ err = NoErr
    /\ retObj = <<>> /\ retErr = NoErr
    /\ cancelled = FALSE
    /\ sleeps = <<>> /\ verdicts = <<>>
    /\ ComputeIdle
    /\ sessions = NoSessions

\* the operation returns
Returned(ret) == [op EXCEPT !.stage = "returned", !.ret = ret]

\* json.Unmarshal of the request's object (and of the old object for an update)
OpDecode ==
    /\ op.stage = "request"
    /\ \E decoded \in BOOLEAN :
         op' = IF ~decoded THEN Returned("error")
               ELSE IF op.kind = "delete" THEN [op EXCEPT !.stage = "lookup"]
               ELSE [op EXCEPT !.stage = "mutate"]
    /\ UNCHANGED pollVars
    /\ UNCHANGED computeVars
    /\ UNCHANGED sessions

\* delete: client.Get before the deletion; "not found" returns nil at once
OpLookup ==
    /\ op.stage = "lookup"
    /\ \E got \in {"found", "not found", "error"} :
         op' = IF got = "found" THEN [op EXCEPT !.stage = "mutate"]
               ELSE IF got = "not found" THEN Returned("nil")
               ELSE Returned("error")
    /\ UNCHANGED pollVars
    /\ UNCHANGED computeVars
    /\ UNCHANGED sessions

\* faulty variant of startsPoll: the poller is started in dry-run mode as well
startsPoll_always(kind, dryRun) == TRUE

\* after a successful mutation call: create and update return the call's response
\* when obj.IsDryRun(), delete calls getStatusWithRetries in both modes
startsPoll(kind, dryRun) == kind = "delete" \/ ~dryRun

\* client.Create / client.Update / client.Delete with the DryRun option of the
\* request, and what follows it up to the call of getStatusWithRetries(ctx,
\* client, u, kind = delete) or to the return
OpMutate ==
    /\ op.stage = "mutate"
    /\ \E called \in BOOLEAN, marshalled \in BOOLEAN :
         IF ~called
         THEN /\ op' = [Returned("error") EXCEPT !.mutation = "failed"]
              /\ UNCHANGED <<pc, delete>>
         ELSE IF startsPoll(op.kind, op.dryRun)
         THEN /\ op' = [op EXCEPT !.stage = "polling", !.mutation = "ok",
                                   !.polls = @ + 1]
              /\ pc' = "start"
              /\ delete' = (op.kind = "delete")
         ELSE /\ op' = [Returned(IF marshalled THEN "mutation response" ELSE "error")
                          EXCEPT !.mutation = "ok"]
              /\ UNCHANGED <<pc, delete>>
    /\ UNCHANGED <<u, attempt, err, retObj, retErr, cancelled, sleeps, verdicts>>
    /\ UNCHANGED computeVars
    /\ UNCHANGED sessions

\* getStatusWithRetries has returned: its error, or its object marshalled
\* (delete returns nil)
OpReturn ==
    /\ op.stage = "polling"
    /\ pc = "done"
    /\ \E marshalled \in BOOLEAN :
         op' = IF retErr # NoErr THEN Returned("error")
               ELSE IF op.kind = "delete" THEN Returned("nil")
               ELSE Returned(IF marshalled THEN "polled object" ELSE "error")
    /\ UNCHANGED pollVars
    /\ UNCHANGED computeVars
    /\ UNCHANGED sessions

OpNext == OpDecode \/ OpLookup \/ OpMutate \/ OpReturn \/ PollStep \/ Cancel

OpSpec == OpInit /\ [][OpNext]_vars

-----------------------------------------------------------------------------
(* Two concurrent calls of getStatusWithRetries, for different resources   *)

SessionIds == {1, 2}

\* the locals of a call at its entry, with the history of what it fetched
StartSession(obj, del) ==
    [pc |-> "start", u |-> obj, delete |-> del, attempt |-> 0, err |-> NoErr,
     retObj |-> <<>>, retErr |-> NoErr, sleeps |-> <<>>, fetched |-> <<>>]

PairPod == Named(Snap("", "Pod", NoFields, Conds(<<>>), NoContainers), "default", "p1")
PairTarget ==
    Named(Snap("inv.sdcio.dev", "Target", NoFields, Conds(<<>>), NoContainers), "default", "dev1")

\* what a fetch of the session's resource can return
PairFetchResults(obj) ==
    IF obj.kind = "Pod"
    THEN {FetchError,
          Fetched([obj EXCEPT !.f = (".status.phase" :> StrV("Pending"))]),
          Fetched([obj EXCEPT !.f = (".status.phase" :> StrV("Succeeded"))])}
    ELSE {NotFound,
          Fetched([obj EXCEPT !.f = Observed]),
          Fetched([obj EXCEPT !.f = Observed,
                              !.conditions = Conds(<<Cond("Ready", ConditionTrue, "Ready", "")>>)])}

PairInit ==
    /\ sessions \in {<<StartSession(PairPod, d1), StartSession(PairTarget, d2)>> :
                       d1 \in BOOLEAN, d2 \in BOOLEAN}
    /\ PollIdle
    /\ ComputeIdle
    /\ op = NoOp

\* the wall clock of a session, in seconds
SessionClock(st) == 1000 + (Sum(st.sleeps) \div 1000)

\* faulty variant of attemptOf: one counter shared by the calls
attemptOf_shared(ss, i) == ss[1].attempt

\* the loop counter is a local of the call: for attempt := 0; ...
attemptOf(ss, i) == ss[i].attempt

SessionInitialSleep(i) ==
    /\ sessions[i].pc = "start"
    /\ sessions' = [sessions EXCEPT ![i].sleeps = Append(@, initialGetDelay),
                                    ![i].pc = "loop"]
    /\ UNCHANGED <<pollVars, computeVars, op>>

SessionGetStatus(i) ==
    /\ sessions[i].pc = "loop"
    /\ attemptOf(sessions, i) < maxRetries
    /\ \E fetch \in PairFetchResults(sessions[i].u) :
         LET r == getStatus(fetch, sessions[i].delete, attemptOf(sessions, i),
                            SessionClock(sessions[i]))
         IN sessions' =
              IF r.cont
              THEN [sessions EXCEPT ![i].fetched = Append(@, fetch),
                                    ![i].pc = "backoff"]
              ELSE [sessions EXCEPT ![i].fetched = Append(@, fetch),
                                    ![i].pc = "done",
                                    ![i].retObj = r.obj,
                                    ![i].retErr = r.err]
    /\ UNCHANGED <<pollVars, computeVars, op>>

SessionBackoff(i) ==
    /\ sessions[i].pc = "backoff"
    /\ sessions' = [sessions EXCEPT
                       ![i].sleeps = Append(@, backoffDuration(attemptOf(sessions, i))),
                       ![i].attempt = attemptOf(sessions, i) + 1,
                       ![i].pc = "loop"]
    /\ UNCHANGED <<pollVars, computeVars, op>>

SessionExhausted(i) ==
    /\ sessions[i].pc = "loop"
    /\ ~(attemptOf(sessions, i) < maxRetries)
    /\ sessions' = [sessions EXCEPT
                       ![i].retObj = <<>>,
                       ![i].retErr = exhaustedError(sessions[i].u, sessions[i].err),
                       ![i].pc = "done"]
    /\ UNCHANGED <<pollVars, computeVars, op>>

SessionStep(i) ==
    \/ SessionInitialSleep(i)
    \/ SessionGetStatus(i)
    \/ SessionBackoff(i)
    \/ SessionExhausted(i)

\* the scheduler runs one of the two goroutines
PairNext == \E i \in SessionIds : SessionStep(i)

PairSpec == PairInit /\ [][PairNext]_vars

\* one call running alone on the fetch results given, from the attempt and the
\* sleeps reached: what it returns, what it slept and how many results it left
RECURSIVE aloneFrom(_, _, _, _, _)
aloneFrom(obj, del, fetches, att, slept) ==
    IF ~(att < maxRetries)
    THEN [done |-> TRUE, retObj |-> <<>>, retErr |-> exhaustedError(obj, NoErr),
          sleeps |-> slept, left |-> Len(fetches)]
    ELSE IF fetches = <<>>
    THEN [done |-> FALSE, retObj |-> <<>>, retErr |-> NoErr,
          sleeps |-> slept, left |-> 0]
    ELSE LET r == getStatus(Head(fetches), del, att, 1000 + (Sum(slept) \div 1000))
         IN IF r.cont
            THEN aloneFrom(obj, del, Tail(fetches), att + 1,
                           Append(slept, backoffDuration(att)))
            ELSE [done |-> TRUE, retObj |-> r.obj, retErr |-> r.err,
                  sleeps |-> slept, left |-> Len(fetches) - 1]

runAlone(obj, del, fetches) == aloneFrom(obj, del, fetches, 0, <<initialGetDelay>>)

-----------------------------------------------------------------------------
(* Properties of the convergence poller                                    *)

exhaustedFmt == "getStatus gvk %s nsn %s after %d retries: %w"

Done == pc = "done"
Succeeded == Done /\ retErr = NoErr
\* the poll returned from the end of the loop
RanOut == Done /\ retErr.fmt = exhaustedFmt

\* an attempt the design calls non-terminal; a is its 0-based index
NonTerminal(e, a) ==
    \/ e.v \in {"FetchError", "ComputeError", ReasonInProgress, ReasonTerminating}
    \/ e.v = "NotFound" /\ ~delete
    \/ e.v = ReasonNoStatusInfo /\ a < maxRetries - 2

AllNonTerminal == \A k \in 1..Len(verdicts) : NonTerminal(verdicts[k], k - 1)

\* the last error recorded by a getStatus call, NoErr when there is none
RECURSIVE lastRecorded(_)
lastRecorded(h) ==
    IF h = <<>> THEN NoErr
    ELSE IF h[Len(h)].err # NoErr THEN h[Len(h)].err
    ELSE lastRecorded(SubSeq(h, 1, Len(h) - 1))

\* C1: a snapshot classified False/Failed on attempt k ends the poll in failure at
\* once: call k is the last fetch, and no sleep follows it (k sleeps precede it).
C1_FailedEndsPoll ==
    \A k \in 1..Len(verdicts) :
        verdicts[k].v = ReasonFailed =>
            /\ k = Len(verdicts)
            /\ Done /\ retErr # NoErr /\ ~RanOut
            /\ Len(sleeps) = k

C1_Witness ==
    /\ Len(verdicts) = maxRetries
    /\ verdicts[maxRetries].v = ReasonFailed
    /\ Done

\* C2: when every attempt is non-terminal the poll makes exactly maxRetries fetches,
\* never reports success, and fails with an error naming the group/version/kind,
\* the namespace/name and maxRetries.
C2_ExhaustedFailure ==
    AllNonTerminal =>
        /\ ~Succeeded
        /\ Done =>
            /\ Len(verdicts) = maxRetries
            /\ retObj = <<>>
            /\ retErr.fmt = exhaustedFmt
            /\ retErr.gvk = <<u.group, u.version, u.kind>>
            /\ retErr.nsn = <<u.namespace, u.name>>
            /\ retErr.retries = 5

C2_Witness ==
    /\ Done
    /\ Len(verdicts) = maxRetries
    /\ \A k \in 1..Len(verdicts) : verdicts[k].v \in {ReasonInProgress, ReasonTerminating}
    /\ verdicts[1].v # verdicts[2].v

\* C3: when the budget runs out after some attempt recorded a fetch error or a
\* classification error, the returned failure carries the last recorded error.
C3_LastErrorReported ==
    (RanOut /\ lastRecorded(verdicts) # NoErr) =>
        retErr.cause = Inner(lastRecorded(verdicts))

\* C4: a not-found fetch ends the poll in success on that attempt when the poll
\* validates a deletion; otherwise it records no error and does not end the poll
\* (which can then only end by running out of attempts).
C4_NotFound ==
    \A k \in 1..Len(verdicts) :
        verdicts[k].v = "NotFound" =>
            IF delete
            THEN /\ k = Len(verdicts)
                 /\ Succeeded /\ retObj = <<>>
                 /\ Len(sleeps) = k
            ELSE /\ verdicts[k].err = NoErr
                 /\ (Done /\ k = Len(verdicts)) => (RanOut /\ k = maxRetries)

C4_Witness ==
    /\ delete /\ Succeeded
    /\ Len(verdicts) = 3
    /\ verdicts[3].v = "NotFound"

C6_ReadyEndsPoll ==
    \A k \in 1..Len(verdicts) :
        verdicts[k].v \in {ReasonReady, ReasonUserManaged} =>
            /\ k = Len(verdicts)
            /\ Succeeded
            /\ retObj = verdicts[k].fetched /\ retObj # <<>>
            /\ Len(sleeps) = k

C6_Witness ==
    /\ Succeeded
    /\ Len(verdicts) = 1
    /\ verdicts[1].v = ReasonUserManaged

\* C7: once cancellation is requested the poller makes no further fetch, completes
\* no further sleep, and can only end with the Aborted outcome.
C7_AbortsOnCancel ==
    [][cancelled =>
          /\ verdicts' = verdicts
          /\ sleeps' = sleeps
          /\ (pc' = "done" => retErr'.fmt = "aborted")]_vars

\* C8: every session ends, after at most maxRetries fetches and at most
\* maxRetries+1 sleeps, in success or in one of the two failures.
C8_Terminates ==
    /\ <>Done
    /\ [](/\ Len(verdicts) <= maxRetries
          /\ Len(sleeps) <= maxRetries + 1
          /\ Done => (retErr = NoErr \/ retErr.fmt \in {"failed: %s", exhaustedFmt}))

C8_Witness ==
    /\ Done
    /\ Len(verdicts) = maxRetries
    /\ Len(sleeps) = maxRetries + 1

\* C9: the sleeps are 500ms, then 1s, 2s, 4s, 8s, 16s after the non-terminal
\* attempts 0..4; a run that exhausts the budget sleeps 500ms + 31s in total, and
\* an attempt that ends the poll is followed by no sleep.
C9_Backoff ==
    /\ sleeps = SubSeq(<<500, 1000, 2000, 4000, 8000, 16000>>, 1, Len(sleeps))
    /\ pc = "loop" => Len(sleeps) = Len(verdicts) + 1
    /\ pc = "backoff" => Len(sleeps) = Len(verdicts)
    /\ RanOut => Len(sleeps) = maxRetries + 1 /\ Sum(sleeps) = 500 + 31000
    /\ (Done /\ ~RanOut) => Len(sleeps) = Len(verdicts)

C9_Witness == RanOut /\ Sum(sleeps) = 31500

-----------------------------------------------------------------------------
(* Properties of the classifier                                            *)

\* C10: a Result returned without error has status True exactly with a reason in
\* {Ready, NoStatusInfo, UserManaged} and status False exactly with a reason in
\* {Terminating, InProgress, Failed}; no other status or reason occurs.
C10_StatusMatchesReason ==
    (cpc = "computed" /\ cres.err = NoErr) =>
        /\ cres.res.Status \in {"True", "False"}
        /\ cres.res.Reason \in {"Ready", "NoStatusInfo", "UserManaged",
                               "Terminating", "InProgress", "Failed"}
        /\ cres.res.Status = "True" <=> cres.res.Reason \in {"Ready", "NoStatusInfo", "UserManaged"}
        /\ cres.res.Status = "False" <=> cres.res.Reason \in {"Terminating", "InProgress", "Failed"}

C10_Witness ==
    /\ cpc = "computed" /\ cres.err = NoErr
    /\ cu.kind = "Deployment" /\ cu.group = "apps"
    /\ cres.res.Reason = "Failed"

Computed == cpc = "computed"

\* the field is present and holds an integer / a string
IsInt(obj, path) == path \in DOMAIN obj.f /\ obj.f[path].t = "int"
IsStr(obj, path) == path \in DOMAIN obj.f /\ obj.f[path].t = "str"
Absent(obj, path) == path \notin DOMAIN obj.f

\* metadata.deletionTimestamp is present and non-empty
BeingDeleted(obj) ==
    IsStr(obj, "metadata.deletionTimestamp") /\ obj.f["metadata.deletionTimestamp"].s # ""

\* metadata.deletionTimestamp is absent or the empty string
NotDeleted(obj) ==
    \/ Absent(obj, "metadata.deletionTimestamp")
    \/ IsStr(obj, "metadata.deletionTimestamp") /\ obj.f["metadata.deletionTimestamp"].s = ""

\* metadata.generation and status.observedGeneration are both present and differ
GenerationMismatch(obj) ==
    /\ IsInt(obj, "metadata.generation") /\ IsInt(obj, "status.observedGeneration")
    /\ obj.f["metadata.generation"].n # obj.f["status.observedGeneration"].n

\* C11: a snapshot whose metadata.deletionTimestamp is present and non-empty is
\* classified status False, reason Terminating, whatever its kind, generation
\* fields, conditions and status.
C11_Terminating ==
    (Computed /\ BeingDeleted(cu)) =>
        /\ cres.err = NoErr
        /\ cres.res.Status = "False" /\ cres.res.Reason = "Terminating"

C11_Witness ==
    /\ Computed /\ BeingDeleted(cu) /\ GenerationMismatch(cu)
    /\ cu.kind = "Pod" /\ Len(cu.conditions.list) > 0
    /\ cres.res.Reason = "Terminating"

\* C12 as stated: every snapshot in which metadata.generation and
\* status.observedGeneration are both present and differ is classified status
\* False, reason InProgress; when either field is absent the generation check
\* yields no verdict and no error.
C12_GenerationMismatch ==
    Computed =>
        /\ GenerationMismatch(cu) =>
              /\ cres.err = NoErr
              /\ cres.res.Status = "False" /\ cres.res.Reason = "InProgress"
        /\ (Absent(cu, "metadata.generation") \/ Absent(cu, "status.observedGeneration")) =>
              checkGeneration(cu) = Nothing

\* C12 amended: a snapshot that is not being deleted, in which metadata.generation
\* and status.observedGeneration are both integers and differ, is classified status
\* False, reason InProgress, with a message naming the kind and both generations;
\* when metadata.generation is absent, or it is an integer and
\* status.observedGeneration is absent, the generation check yields no verdict and
\* no error.
C12_GenerationMismatchNotDeleted ==
    Computed =>
        /\ (NotDeleted(cu) /\ GenerationMismatch(cu)) =>
              /\ cres.err = NoErr
              /\ cres.res.Status = "False" /\ cres.res.Reason = "InProgress"
              /\ cres.res.Message.args = <<cu.f["metadata.generation"].n,
                                           cu.f["status.observedGeneration"].n>>
              /\ cres.res.Message.names = <<cu.kind>>
        /\ (\/ Absent(cu, "metadata.generation")
            \/ IsInt(cu, "metadata.generation") /\ Absent(cu, "status.observedGeneration")) =>
              checkGeneration(cu) = Nothing

C12_Witness ==
    /\ Computed /\ NotDeleted(cu) /\ GenerationMismatch(cu)
    /\ cu.kind = "ConfigMap"
    /\ cu.f["metadata.generation"].n < cu.f["status.observedGeneration"].n
    /\ cres.res.Reason = "InProgress"

Recomputed == cpc = "recomputed"

\* the index of the first condition of the type and status, 0 when there is none
First(conditions, type, status) ==
    LET hits == {i \in 1..Len(conditions) :
                    conditions[i].Type = type /\ conditions[i].Status = status}
    IN IF hits = {} THEN 0 ELSE CHOOSE i \in hits : \A j \in hits : i <= j

Phase(obj) == IF IsStr(obj, ".status.phase") THEN obj.f[".status.phase"].s ELSE ""

\* a Pod in phase Pending whose PodScheduled=False condition has reason Unschedulable
UnschedulablePod(obj) ==
    /\ obj.group = "" /\ obj.kind = "Pod" /\ Phase(obj) = "Pending"
    /\ obj.conditions.ok
    /\ LET i == First(obj.conditions.list, "PodScheduled", "False")
       IN i # 0 /\ obj.conditions.list[i].Reason = "Unschedulable"

\* the age of the snapshot at time t, in seconds
Age(obj, t) == t - GetCreationTimestamp(obj)

GenerationSettled(obj) ==
    \/ Absent(obj, "metadata.generation")
    \/ /\ IsInt(obj, "metadata.generation")
       /\ \/ Absent(obj, "status.observedGeneration")
          \/ /\ IsInt(obj, "status.observedGeneration")
             /\ obj.f["metadata.generation"].n = obj.f["status.observedGeneration"].n

HasReadyCondition(obj) ==
    obj.conditions.ok /\ \E i \in 1..Len(obj.conditions.list) : obj.conditions.list[i].Type = "Ready"

\* no generic rule applies: the snapshot is not being deleted, its generation is
\* settled and its conditions hold no condition of type Ready
NoGenericRule(obj) ==
    /\ NotDeleted(obj) /\ GenerationSettled(obj)
    /\ obj.conditions.ok /\ ~HasReadyCondition(obj)

\* group + "/" + kind, or the bare kind when the group is empty
DispatchKey(obj) == IF obj.group = "" THEN <<obj.kind>> ELSE <<obj.group, obj.kind>>

\* C14: a snapshot on which no generic rule produces a verdict and whose dispatch
\* key is not in the registry is classified status True, reason NoStatusInfo,
\* with an empty message and no error.
C14_Unregistered ==
    (Computed /\ NoGenericRule(cu) /\ DispatchKey(cu) \notin DOMAIN legacyTypes) =>
        /\ cres.err = NoErr
        /\ cres.res.Status = "True" /\ cres.res.Reason = "NoStatusInfo"
        /\ cres.res.Message = Msg("", <<>>)

C14_Witness ==
    /\ Computed /\ NoGenericRule(cu)
    /\ cu.group = "" /\ cu.kind = "Deployment"
    /\ Len(cu.conditions.list) > 0
    /\ cres.res.Reason = "NoStatusInfo"

\* C15: for a snapshot of any kind that is not being deleted, has no generation
\* mismatch and has a condition of type Ready, the verdict is taken from the first
\* such condition in list order: status True gives True/Ready, any other status
\* gives False/InProgress, and the message is that condition's message.
C15_ReadyCondition ==
    (Computed /\ NotDeleted(cu) /\ GenerationSettled(cu) /\ HasReadyCondition(cu)) =>
        LET cs == cu.conditions.list
            i == CHOOSE k \in 1..Len(cs) :
                    cs[k].Type = "Ready" /\ \A j \in 1..(k - 1) : cs[j].Type # "Ready"
        IN /\ cres.err = NoErr
           /\ cs[i].Status = "True" =>
                 cres.res.Status = "True" /\ cres.res.Reason = "Ready"
           /\ cs[i].Status # "True" =>
                 cres.res.Status = "False" /\ cres.res.Reason = "InProgress"
           /\ cres.res.Message = Msg(cs[i].Message, <<>>)

C15_Witness ==
    /\ Computed /\ NotDeleted(cu) /\ GenerationSettled(cu)
    /\ cu.kind = "Secret"
    /\ Len(cu.conditions.list) = 2
    /\ cu.conditions.list[1].Type = "Ready" /\ cu.conditions.list[1].Status = "Unknown"
    /\ cu.conditions.list[2].Type = "Ready" /\ cu.conditions.list[2].Status = "True"
    /\ cres.res.Reason = "InProgress" /\ cres.res.Message.fmt = "unknown"

\* a Deployment of the groups the registry knows
IsDeployment(obj) == obj.kind = "Deployment" /\ obj.group \in {"apps", "extensions"}

HasCondition(obj, type, status, reason) ==
    \E i \in 1..Len(obj.conditions.list) :
        /\ obj.conditions.list[i].Type = type
        /\ obj.conditions.list[i].Status = status
        /\ obj.conditions.list[i].Reason = reason

\* some Progressing condition has reason ProgressDeadlineExceeded
DeadlinePassed(obj) ==
    \E st \in {"True", "False", "Unknown"} :
        HasCondition(obj, "Progressing", st, "ProgressDeadlineExceeded")

AvailableTrue(obj) ==
    \E i \in 1..Len(obj.conditions.list) :
        obj.conditions.list[i].Type = "Available" /\ obj.conditions.list[i].Status = "True"

SpecReplicas(obj) == GetIntField(obj.f, ".spec.replicas", 1)
StatusReplicas(obj) == GetIntField(obj.f, ".status.replicas", 0)
UpdatedReplicas(obj) == GetIntField(obj.f, ".status.updatedReplicas", 0)
ReadyReplicas(obj) == GetIntField(obj.f, ".status.readyReplicas", 0)
AvailableReplicas(obj) == GetIntField(obj.f, ".status.availableReplicas", 0)

\* the replica counts of a Deployment that is rolled out
ReplicasSettled(obj) ==
    /\ StatusReplicas(obj) = SpecReplicas(obj)
    /\ UpdatedReplicas(obj) >= SpecReplicas(obj)
    /\ AvailableReplicas(obj) >= UpdatedReplicas(obj)
    /\ ReadyReplicas(obj) >= SpecReplicas(obj)

\* the progressing flag as the claim states it, and as the code sets it
ProgressingAsStated(obj) ==
    \/ Absent(obj, ".spec.progressDeadlineSeconds")
    \/ HasCondition(obj, "Progressing", "True", "NewReplicaSetAvailable")

ProgressingFlag(obj) ==
    \/ ~IsInt(obj, ".spec.progressDeadlineSeconds")
    \/ obj.f[".spec.progressDeadlineSeconds"].n = 2147483647
    \/ HasCondition(obj, "Progressing", "True", "NewReplicaSetAvailable")

\* C16 as stated: a Deployment on which no generic rule applies is Ready, with the
\* message "Deployment is available. Replicas: <status.replicas>", exactly when no
\* Progressing condition has reason ProgressDeadlineExceeded, the replica counts
\* are settled, the progressing flag is set (spec.progressDeadlineSeconds absent,
\* or Progressing=True/NewReplicaSetAvailable) and Available=True exists;
\* otherwise it is InProgress.
C16_DeploymentReady ==
    (Computed /\ IsDeployment(cu) /\ NoGenericRule(cu)) =>
        LET all == /\ ~DeadlinePassed(cu) /\ ReplicasSettled(cu)
                   /\ ProgressingAsStated(cu) /\ AvailableTrue(cu)
        IN /\ cres.err = NoErr
           /\ cres.res.Reason = "Ready" <=> all
           /\ all => cres.res = ready(Msg("Deployment is available. Replicas: %d",
                                          <<StatusReplicas(cu)>>))
           /\ ~all => cres.res.Reason = "InProgress"

\* the message format of the first failing check of a Deployment, in the order
\* of the checks
FirstFailing(obj) ==
    IF SpecReplicas(obj) > StatusReplicas(obj) THEN "Replicas: %d/%d"
    ELSE IF SpecReplicas(obj) > UpdatedReplicas(obj) THEN "Updated: %d/%d"
    ELSE IF StatusReplicas(obj) > SpecReplicas(obj) THEN "Pending termination: %d"
    ELSE IF UpdatedReplicas(obj) > AvailableReplicas(obj) THEN "Available: %d/%d"
    ELSE IF SpecReplicas(obj) > ReadyReplicas(obj) THEN "Ready: %d/%d"
    ELSE IF ~ProgressingFlag(obj) THEN "ReplicaSet not Available"
    ELSE "Deployment not Available"

\* C16 amended: the progressing flag is also set by a spec.progressDeadlineSeconds
\* that is not an integer or equals 2147483647; a Deployment that is not Ready is
\* Failed when a Progressing condition has reason ProgressDeadlineExceeded, and
\* else InProgress with the message of the first failing check in the order:
\* replicas below spec, updated below spec, replicas above spec, available below
\* updated, ready below spec, progressing flag, Available condition.
C16_DeploymentReadyOrFirstFailing ==
    (Computed /\ IsDeployment(cu) /\ NoGenericRule(cu)) =>
        LET all == /\ ~DeadlinePassed(cu) /\ ReplicasSettled(cu)
                   /\ ProgressingFlag(cu) /\ AvailableTrue(cu)
        IN /\ cres.err = NoErr
           /\ cres.res.Reason = "Ready" <=> all
           /\ all => cres.res = ready(Msg("Deployment is available. Replicas: %d",
                                          <<StatusReplicas(cu)>>))
           /\ (~all /\ DeadlinePassed(cu)) => cres.res.Reason = "Failed"
           /\ (~all /\ ~DeadlinePassed(cu)) =>
                 /\ cres.res.Status = "False" /\ cres.res.Reason = "InProgress"
                 /\ cres.res.Message.fmt = FirstFailing(cu)

C16_Witness ==
    /\ Computed /\ IsDeployment(cu) /\ NoGenericRule(cu)
    /\ IsInt(cu, ".spec.progressDeadlineSeconds")
    /\ cu.f[".spec.progressDeadlineSeconds"].n = 600
    /\ Absent(cu, ".spec.replicas") /\ StatusReplicas(cu) = 1
    /\ Len(cu.conditions.list) = 2
    /\ cres.res = ready(Msg("Deployment is available. Replicas: %d", <<1>>))

\* C17: for a Deployment on which no generic rule applies, a Progressing condition
\* whose reason is ProgressDeadlineExceeded makes the verdict Failed with the
\* message of (the first) such condition, whatever the replica counts, that
\* condition's status and the other conditions; the verdict is Failed in no other case.
C17_DeadlineExceededFails ==
    (Computed /\ IsDeployment(cu) /\ NoGenericRule(cu)) =>
        LET cs == cu.conditions.list
            hits == {i \in 1..Len(cs) :
                        cs[i].Type = "Progressing" /\ cs[i].Reason = "ProgressDeadlineExceeded"}
        IN /\ hits # {} =>
                 /\ cres.err = NoErr
                 /\ cres.res.Status = "False" /\ cres.res.Reason = "Failed"
                 /\ cres.res.Message =
                        Msg(cs[CHOOSE i \in hits : \A j \in hits : i <= j].Message, <<>>)
           /\ cres.res.Reason = "Failed" => hits # {}

C17_Witness ==
    /\ Computed /\ IsDeployment(cu) /\ NoGenericRule(cu)
    /\ HasCondition(cu, "Progressing", "True", "ProgressDeadlineExceeded")
    /\ HasCondition(cu, "Available", "True", "")
    /\ ReplicasSettled(cu)
    /\ cres.res.Reason = "Failed" /\ cres.res.Message.fmt = "late"

\* C18: Secret and ConfigMap (core group) and batch/CronJob snapshots on which no
\* generic rule applies are classified status True, reason Ready, message "ready",
\* without error, whatever their data and with or without a status section.
C18_AlwaysReady ==
    (/\ Computed /\ NoGenericRule(cu)
     /\ DispatchKey(cu) \in {<<"Secret">>, <<"ConfigMap">>, <<"batch", "CronJob">>}) =>
        /\ cres.err = NoErr
        /\ cres.res.Status = "True" /\ cres.res.Reason = "Ready"
        /\ cres.res.Message = Msg("ready", <<>>)

C18_Witness ==
    /\ Computed /\ NoGenericRule(cu)
    /\ cu.group = "batch" /\ cu.kind = "CronJob"
    /\ ~Absent(cu, ".status.lastScheduleTime") /\ ~Absent(cu, "data.key")
    /\ cres.res.Reason = "Ready" /\ cres.res.Message.fmt = "ready"

IsPod(obj) == obj.group = "" /\ obj.kind = "Pod"

\* some PodScheduled condition has status False and reason Unschedulable
HasUnschedulable(obj) == HasCondition(obj, "PodScheduled", "False", "Unschedulable")

C20_PodPhase ==
    (Computed /\ IsPod(cu) /\ NoGenericRule(cu)) =>
        /\ Phase(cu) = "Succeeded" =>
              cres.err = NoErr /\ cres.res.Status = "True" /\ cres.res.Reason = "Ready"
        /\ Phase(cu) = "Failed" =>
              cres.err = NoErr /\ cres.res.Status = "False" /\ cres.res.Reason = "Failed"
        /\ Phase(cu) = "" =>
              cres.err = NoErr /\ cres.res.Status = "False" /\ cres.res.Reason = "InProgress"
        /\ Phase(cu) \notin {"", "Succeeded", "Failed", "Running", "Pending"} =>
              /\ cres.err # NoErr /\ cres.res = NoResult
              /\ cres.err.fmt = "unknown phase %s" /\ cres.err.arg = Phase(cu)

C20_Witness ==
    /\ Computed /\ IsPod(cu) /\ NoGenericRule(cu)
    /\ Phase(cu) = "Unknown"
    /\ Len(cu.conditions.list) > 0
    /\ cres.res = NoResult /\ cres.err.fmt = "unknown phase %s"

IsCrd(obj) == obj.group = "apiextensions.k8s.io" /\ obj.kind = "CustomResourceDefinition"

\* some condition of the type and status, with a reason other than the given one
HasConditionBut(obj, type, status, reason) ==
    \E i \in 1..Len(obj.conditions.list) :
        /\ obj.conditions.list[i].Type = type
        /\ obj.conditions.list[i].Status = status
        /\ obj.conditions.list[i].Reason # reason

HasConditionOf(obj, type, status) ==
    \E i \in 1..Len(obj.conditions.list) :
        obj.conditions.list[i].Type = type /\ obj.conditions.list[i].Status = status

\* C21: for a CustomResourceDefinition on which no generic rule applies, a
\* NamesAccepted=False condition gives Failed whatever the other conditions and
\* their order; otherwise Established=False with a reason other than Installing
\* gives Failed, Established=True gives Ready, and anything else gives InProgress
\* with the message "installing".
C21_CrdNamesAccepted ==
    (Computed /\ IsCrd(cu) /\ NoGenericRule(cu)) =>
        LET rejected == HasConditionOf(cu, "NamesAccepted", "False")
            refused == HasConditionBut(cu, "Established", "False", "Installing")
            established == HasConditionOf(cu, "Established", "True")
        IN /\ cres.err = NoErr
           /\ rejected => cres.res.Reason = "Failed"
           /\ (~rejected /\ refused /\ ~established) => cres.res.Reason = "Failed"
           /\ (~rejected /\ established /\ ~refused) => cres.res.Reason = "Ready"
           /\ (~rejected /\ ~refused /\ ~established) =>
                 cres.res.Reason = "InProgress" /\ cres.res.Message = Msg("installing", <<>>)

IsSts(obj) == obj.group = "apps" /\ obj.kind = "StatefulSet"

CurrentReplicas(obj) == GetIntField(obj.f, ".status.currentReplicas", 0)

\* spec.updateStrategy.rollingUpdate.partition is set to a value other than -1
HasPartition(obj) ==
    /\ IsInt(obj, ".spec.updateStrategy.rollingUpdate.partition")
    /\ obj.f[".spec.updateStrategy.rollingUpdate.partition"].n # -1

Partition(obj) == obj.f[".spec.updateStrategy.rollingUpdate.partition"].n

StrOr(obj, path, default) == IF IsStr(obj, path) THEN obj.f[path].s ELSE default

\* C22: for an apps/StatefulSet on which no generic rule applies, update strategy
\* OnDelete gives True/UserManaged whatever the replica counts; otherwise the
\* verdict is Ready exactly when status.replicas = spec.replicas (default 1),
\* readyReplicas >= spec.replicas, and either a partition is set and
\* updatedReplicas >= spec.replicas - partition, or none is set and
\* currentReplicas >= spec.replicas and currentRevision = updateRevision; in
\* every other case it is InProgress.
C22_StatefulSet ==
    (Computed /\ IsSts(cu) /\ NoGenericRule(cu)) =>
        LET rolled ==
                /\ StatusReplicas(cu) = SpecReplicas(cu)
                /\ ReadyReplicas(cu) >= SpecReplicas(cu)
                /\ IF HasPartition(cu)
                   THEN UpdatedReplicas(cu) >= SpecReplicas(cu) - Partition(cu)
                   ELSE /\ CurrentReplicas(cu) >= SpecReplicas(cu)
                        /\ StrOr(cu, ".status.currentRevision", "")
                              = StrOr(cu, ".status.updateRevision", "")
        IN /\ cres.err = NoErr
           /\ IF StrOr(cu, ".spec.updateStrategy.type", "") = "OnDelete"
              THEN cres.res.Status = "True" /\ cres.res.Reason = "UserManaged"
              ELSE /\ rolled => cres.res.Status = "True" /\ cres.res.Reason = "Ready"
                   /\ ~rolled => cres.res.Status = "False" /\ cres.res.Reason = "InProgress"

C22_Witness ==
    /\ Computed /\ IsSts(cu) /\ NoGenericRule(cu)
    /\ Absent(cu, ".spec.updateStrategy.type")
    /\ HasPartition(cu) /\ Partition(cu) = 0
    /\ SpecReplicas(cu) = 1 /\ CurrentReplicas(cu) = 0
    /\ StrOr(cu, ".status.currentRevision", "") # StrOr(cu, ".status.updateRevision", "")
    /\ cres.res.Reason = "Ready"

IsDaemonSet(obj) == obj.kind = "DaemonSet" /\ obj.group \in {"apps", "extensions"}

\* the field is absent or holds an integer
IntOrAbsent(obj, path) == Absent(obj, path) \/ IsInt(obj, path)

Desired(obj) == GetIntField(obj.f, ".status.desiredNumberScheduled", -1)

\* the scheduled counts of a DaemonSet that is rolled out
Scheduled(obj) ==
    /\ GetIntField(obj.f, ".status.currentNumberScheduled", 0) >= Desired(obj)
    /\ GetIntField(obj.f, ".status.updatedNumberScheduled", 0) >= Desired(obj)
    /\ GetIntField(obj.f, ".status.numberAvailable", 0) >= Desired(obj)
    /\ GetIntField(obj.f, ".status.numberReady", 0) >= Desired(obj)

\* the message format of the first shortfall of a DaemonSet
FirstShortfall(obj) ==
    IF Desired(obj) > GetIntField(obj.f, ".status.currentNumberScheduled", 0) THEN "Current: %d/%d"
    ELSE IF Desired(obj) > GetIntField(obj.f, ".status.updatedNumberScheduled", 0) THEN "Updated: %d/%d"
    ELSE IF Desired(obj) > GetIntField(obj.f, ".status.numberAvailable", 0) THEN "Available: %d/%d"
    ELSE "Ready: %d/%d"

\* a DaemonSet with no deletionTimestamp and no Ready condition, whose generation
\* fields are integers where present
DaemonSetCase(obj) ==
    /\ IsDaemonSet(obj) /\ NotDeleted(obj)
    /\ obj.conditions.ok /\ ~HasReadyCondition(obj)
    /\ IntOrAbsent(obj, "metadata.generation")
    /\ IntOrAbsent(obj, "status.observedGeneration")

\* C23 as stated: a DaemonSet with no deletionTimestamp and no Ready condition is
\* InProgress if metadata.generation, status.observedGeneration or
\* status.desiredNumberScheduled is absent; otherwise it is Ready exactly when the
\* current, updated, available and ready counts are each >= the desired number,
\* and InProgress else.
C23_DaemonSet ==
    (Computed /\ DaemonSetCase(cu)) =>
        /\ cres.err = NoErr
        /\ IF \/ Absent(cu, "metadata.generation")
              \/ Absent(cu, "status.observedGeneration")
              \/ Absent(cu, ".status.desiredNumberScheduled")
           THEN cres.res.Status = "False" /\ cres.res.Reason = "InProgress"
           ELSE /\ cres.res.Reason = "Ready" <=> Scheduled(cu)
                /\ ~Scheduled(cu) => cres.res.Reason = "InProgress"

\* C23 amended: as stated when metadata.generation equals
\* status.observedGeneration; when both are present and differ the verdict is
\* InProgress whatever the counts.  The first shortfall, in the order current,
\* updated, available, ready, gives the message.
C23_DaemonSetObserved ==
    (Computed /\ DaemonSetCase(cu)) =>
        /\ cres.err = NoErr
        /\ IF \/ Absent(cu, "metadata.generation")
              \/ Absent(cu, "status.observedGeneration")
              \/ Desired(cu) = -1
              \/ GenerationMismatch(cu)
           THEN cres.res.Status = "False" /\ cres.res.Reason = "InProgress"
           ELSE /\ cres.res.Reason = "Ready" <=> Scheduled(cu)
                /\ Scheduled(cu) => cres.res.Status = "True"
                /\ ~Scheduled(cu) =>
                      /\ cres.res.Status = "False" /\ cres.res.Reason = "InProgress"
                      /\ cres.res.Message.fmt = FirstShortfall(cu)

C23_Witness ==
    /\ Computed /\ DaemonSetCase(cu)
    /\ Absent(cu, "metadata.generation") /\ Absent(cu, "status.observedGeneration")
    /\ Desired(cu) = 1 /\ Scheduled(cu)
    /\ cres.res.Reason = "InProgress"
    /\ cres.res.Message.fmt = "%s metadata.generation not found"

-----------------------------------------------------------------------------
(* Further properties of the convergence poller                            *)

\* the attempt ended in a fetch error other than not-found, or in a classification error
IsError(e) == e.v \in {"FetchError", "ComputeError"}

\* C24: a fetch error other than not-found, or a classification error, on attempt
\* k never ends the poll (after the last attempt the poll ends by running out);
\* for k below the last attempt the fetch of attempt k+1 follows, after the backoff
\* sleep; and a later attempt with a Ready or UserManaged verdict ends the poll in
\* success with a nil error.
C24_ErrorsAreRetried ==
    /\ [](\A k \in 1..Len(verdicts) :
            /\ (IsError(verdicts[k]) /\ Done /\ k = Len(verdicts)) =>
                   (RanOut /\ k = maxRetries)
            /\ verdicts[k].v \in {ReasonReady, ReasonUserManaged} =>
                   (Done /\ retErr = NoErr /\ k = Len(verdicts)))
    /\ \A k \in 1..(maxRetries - 1) :
          (Len(verdicts) = k /\ IsError(verdicts[k]))
              ~> (Len(verdicts) = k + 1 /\ Len(sleeps) = k + 1)

C24_Witness ==
    /\ Succeeded
    /\ Len(verdicts) = maxRetries
    /\ \A k \in 1..(maxRetries - 1) : IsError(verdicts[k])
    /\ verdicts[1].v = "FetchError" /\ verdicts[2].v = "ComputeError"
    /\ verdicts[maxRetries].v = ReasonReady

\* C26: when every fetched snapshot is classified NoStatusInfo, the poll retries 4
\* times and reports success on the 5th fetch, the last attempt of the budget.
C26_NoStatusInfoFifthFetch ==
    (/\ Done /\ verdicts # <<>>
     /\ \A k \in 1..Len(verdicts) : verdicts[k].v = ReasonNoStatusInfo) =>
        /\ Succeeded
        /\ Len(verdicts) = 5
        /\ Len(sleeps) = 1 + 4

\* C27: a poll that validates a deletion returns success only if one of its
\* fetches returned not-found; while every fetch returns the resource, whatever
\* its verdict, the poll does not report success.
C27_DeletionNeedsNotFound ==
    (delete /\ Succeeded) => \E k \in 1..Len(verdicts) : verdicts[k].v = "NotFound"

\* the snapshot of the last fetch that returned one, <<>> when none did
RECURSIVE lastFetched(_)
lastFetched(h) ==
    IF h = <<>> THEN <<>>
    ELSE IF h[Len(h)].fetched # <<>> THEN h[Len(h)].fetched
    ELSE lastFetched(SubSeq(h, 1, Len(h) - 1))

\* the poll ended in failure: at a Failed verdict or at the end of the budget
TerminalFailure ==
    Done /\ (RanOut \/ (verdicts # <<>> /\ verdicts[Len(verdicts)].v = ReasonFailed))

\* C29: every terminal failure of the poller, from a Failed verdict or from an
\* exhausted budget, is returned with a non-nil error and, when some fetch of the
\* session succeeded, with the last snapshot fetched.
C29_FailureCarriesSnapshot ==
    TerminalFailure =>
        /\ retErr # NoErr
        /\ lastFetched(verdicts) # <<>> => retObj = lastFetched(verdicts)

-----------------------------------------------------------------------------
(* Precedence of the generic rules                                         *)

\* the first condition of type Ready of a snapshot that has one
FirstReadyCondition(obj) ==
    LET cs == obj.conditions.list
    IN cs[CHOOSE k \in 1..Len(cs) :
             cs[k].Type = "Ready" /\ \A j \in 1..(k - 1) : cs[j].Type # "Ready"]

\* a container of the snapshot waits with reason CrashLoopBackOff
CrashLooping(obj) ==
    /\ obj.containers.t = "list"
    /\ \E i \in 1..Len(obj.containers.list) :
          /\ obj.containers.list[i].waiting /\ obj.containers.list[i].hasName
          /\ obj.containers.list[i].hasReason
          /\ obj.containers.list[i].reason = "CrashLoopBackOff"

\* C28: the generic rules take precedence over every kind-specific classifier: a
\* snapshot with a non-empty deletionTimestamp, a generation mismatch or a
\* condition of type Ready gets the generic verdict whatever its kind and its
\* kind-specific status.  A Pod whose Ready condition has a status other than
\* True is InProgress, and so never Failed, also in phase Failed or with a
\* container in CrashLoopBackOff.
C28_GenericRulesFirst ==
    Computed =>
        /\ BeingDeleted(cu) => (cres.err = NoErr /\ cres.res = terminating)
        /\ (NotDeleted(cu) /\ GenerationMismatch(cu)) =>
              /\ cres.err = NoErr /\ cres.res.Reason = "InProgress"
              /\ cres.res.Message.fmt = "%s generation is %d, but latest observed generation is %d"
        /\ (NotDeleted(cu) /\ GenerationSettled(cu) /\ HasReadyCondition(cu)) =>
              /\ cres.err = NoErr
              /\ cres.res.Reason = IF FirstReadyCondition(cu).Status = "True"
                                   THEN "Ready" ELSE "InProgress"
              /\ cres.res.Message = Msg(FirstReadyCondition(cu).Message, <<>>)
        /\ (/\ IsPod(cu) /\ NotDeleted(cu) /\ GenerationSettled(cu) /\ HasReadyCondition(cu)
            /\ FirstReadyCondition(cu).Status # "True") =>
              cres.res.Status = "False" /\ cres.res.Reason = "InProgress"

C28_Witness ==
    /\ Computed /\ IsPod(cu) /\ NotDeleted(cu) /\ GenerationSettled(cu)
    /\ HasReadyCondition(cu) /\ FirstReadyCondition(cu).Status = "False"
    /\ Phase(cu) = "Running" /\ CrashLooping(cu)
    /\ cres.res.Reason = "InProgress"
    /\ cres.res.Message.fmt = "containers not ready"

\* the same for a Pod in phase Failed
C28_WitnessFailedPhase ==
    /\ Computed /\ IsPod(cu) /\ HasReadyCondition(cu)
    /\ FirstReadyCondition(cu).Status = "False" /\ Phase(cu) = "Failed"
    /\ cres.res.Reason = "InProgress"

-----------------------------------------------------------------------------
(* Operations and the poller                                               *)

CreateOrUpdate == op.kind \in {"create", "update"}

\* no call of getStatusWithRetries has been made: no settle delay, no fetch
NeverPolled == op.polls = 0 /\ pc = "idle" /\ sleeps = <<>> /\ verdicts = <<>>

\* C30: a create or update in dry-run mode never starts the poller (no settle
\* delay, no fetch) and what it returns without error is the mutation call's
\* response; not in dry-run, a successful mutation call is followed by exactly
\* one poll session, with isDeletion = false, and a failed one by none.
C30_DryRunNeverPolls ==
    CreateOrUpdate =>
        /\ op.dryRun =>
              /\ NeverPolled
              /\ (op.stage = "returned" /\ op.ret # "error") =>
                     (op.mutation = "ok" /\ op.ret = "mutation response")
        /\ (~op.dryRun /\ op.mutation = "ok") =>
              /\ op.polls = 1 /\ pc # "idle" /\ delete = FALSE
              /\ op.stage = "returned" => (Done /\ op.ret \in {"polled object", "error"})
        /\ op.mutation # "ok" => NeverPolled

C30_Witness ==
    /\ op.kind = "create" /\ op.dryRun /\ op.stage = "returned"
    /\ op.mutation = "ok" /\ op.ret = "mutation response" /\ NeverPolled

\* an update outside dry-run that has polled once and returned the polled object
C30_WitnessPolled ==
    /\ op.kind = "update" /\ ~op.dryRun /\ op.stage = "returned"
    /\ op.polls = 1 /\ Succeeded /\ op.ret = "polled object"
    /\ Len(verdicts) >= 2

\* a failed mutation call
C30_WitnessFailed ==
    /\ CreateOrUpdate /\ ~op.dryRun /\ op.mutation = "failed"
    /\ op.stage = "returned" /\ NeverPolled

-----------------------------------------------------------------------------
(* Concurrent sessions                                                     *)

\* session i has made the fetches, and returned what, the call would alone
AsAlone(i) ==
    LET st == sessions[i]
        alone == runAlone(st.u, st.delete, st.fetched)
    IN /\ st.pc = "done" =>
             /\ alone.done /\ alone.left = 0
             /\ alone.retObj = st.retObj /\ alone.retErr = st.retErr
             /\ alone.sleeps = st.sleeps
       /\ (st.pc = "loop" /\ st.attempt < maxRetries) =>
             /\ ~alone.done
             /\ alone.sleeps = st.sleeps
             /\ Len(st.fetched) = st.attempt

\* C25: two calls of getStatusWithRetries for different resources that run
\* interleaved are independent: each makes the fetches and returns the outcome
\* it would running alone on the same fetch results, and a step of one call
\* leaves the attempt counter, the recorded error and every other local of the
\* other call as they were.
C25_SessionsIndependent ==
    /\ [](sessions # NoSessions => \A i \in SessionIds : AsAlone(i))
    /\ [][sessions # NoSessions =>
            \A i \in SessionIds :
                sessions'[i] # sessions[i] =>
                    \A j \in SessionIds \ {i} : sessions'[j] = sessions[j]]_vars

\* both calls are under way, at different attempts
C25_Witness ==
    /\ sessions # NoSessions
    /\ sessions[1].pc = "backoff" /\ sessions[1].attempt = 1
    /\ sessions[2].pc = "backoff" /\ sessions[2].attempt = 3

\* both calls have returned, one out of attempts and one with its object
C25_WitnessReturned ==
    /\ sessions # NoSessions
    /\ sessions[1].pc = "done" /\ sessions[1].retErr.fmt = exhaustedFmt
    /\ sessions[2].pc = "done" /\ sessions[2].retErr = NoErr
    /\ Len(sessions[2].fetched) = 2 /\ sessions[2].retObj # <<>>

====
